---- MODULE Spec2Model ----
(***************************************************************************)
(* Bull call spread calculator: the payoff functions (core/spreads,        *)
(* core/sizing) and the Alpaca quote resolution (integrations/alpaca).     *)
(*                                                                         *)
(* JavaScript values are records [t, v, msg]: t is "num" (a finite         *)
(* integer-valued number v), "nan" (a non-finite number), "undefined", or  *)
(* "throw" (the call raised Error(msg)).  Amounts are whole numbers, so    *)
(* the arithmetic of the code is exact in the model.                       *)
(***************************************************************************)
EXTENDS Integers, Sequences, FiniteSets, TLC

VARIABLES
    ppc,        \* position of the payoff run
    pArgs,      \* the argument record handed to the payoff functions
    pOut,       \* what each payoff function returned or threw
    fpc,        \* position of fetchSpreadMidDebit: the await it is suspended at
    params,     \* its FetchSpreadDebitParams
    locals,     \* its constants: symbol, normalizedExpiration, longSymbol, shortSymbol
    quotesCall, \* the running fetchLatestQuotes call: symbols, endpoint, accumulated
    chainCall,  \* the running fetchContractsFromChain call: endpoint, page, token, collected
    legs,       \* longContract, shortContract, resolvedExpiration
    outcome,    \* the FetchSpreadDebitResult returned, or the error thrown
    requests    \* every request issued so far, with whether it succeeded

payoffVars == <<ppc, pArgs, pOut>>
fetchVars == <<fpc, params, locals, quotesCall, chainCall, legs, outcome, requests>>
vars == <<ppc, pArgs, pOut, fpc, params, locals, quotesCall, chainCall, legs, outcome, requests>>

-----------------------------------------------------------------------------
(* JavaScript values *)

Num(n) == [t |-> "num", v |-> n, msg |-> ""]
NaN == [t |-> "nan", v |-> 0, msg |-> ""]
Undefined == [t |-> "undefined", v |-> 0, msg |-> ""]
Throw(m) == [t |-> "throw", v |-> 0, msg |-> m]
NotRun == [t |-> "notrun", v |-> 0, msg |-> ""]

IsFinite(x) == x.t = "num"
IsInteger(x) == x.t = "num"
Returned(x) == x.t \in {"num", "nan"}

Max(a, b) == IF a >= b THEN a ELSE b
Min(a, b) == IF a <= b THEN a ELSE b

\* a * b on numbers: NaN if either operand is not finite
Times(a, b) == IF a.t = "num" /\ b.t = "num" THEN Num(a.v * b.v) ELSE NaN

\* a parameter with a default value: `name = dflt` in a destructuring
Default(x, dflt) == IF x.t = "undefined" THEN dflt ELSE x


-----------------------------------------------------------------------------
(* JavaScript strings are sequences of one-character strings.  The only    *)
(* whitespace character of the model is the space.                         *)

DigitChars == <<"0", "1", "2", "3", "4", "5", "6", "7", "8", "9">>
LowerChars == <<"a", "b", "c", "l", "p", "s", "t", "u", "y">>
UpperChars == <<"A", "B", "C", "L", "P", "S", "T", "U", "Y">>

IsSpace(c) == c = " "
IsDigit(c) == \E i \in 1..10 : DigitChars[i] = c
CharToDigit(c) == (CHOOSE i \in 1..10 : DigitChars[i] = c) - 1

UpperOf(c) ==
    IF \E i \in 1..Len(LowerChars) : LowerChars[i] = c
      THEN UpperChars[CHOOSE i \in 1..Len(LowerChars) : LowerChars[i] = c]
      ELSE c

LowerOf(c) ==
    IF \E i \in 1..Len(UpperChars) : UpperChars[i] = c
      THEN LowerChars[CHOOSE i \in 1..Len(UpperChars) : UpperChars[i] = c]
      ELSE c

toUpperCase(s) == [i \in 1..Len(s) |-> UpperOf(s[i])]
toLowerCase(s) == [i \in 1..Len(s) |-> LowerOf(s[i])]

RECURSIVE trimStart(_)
trimStart(s) ==
    IF s = <<>> THEN <<>>
    ELSE IF IsSpace(Head(s)) THEN trimStart(Tail(s)) ELSE s

RECURSIVE trimEnd(_)
trimEnd(s) ==
    IF s = <<>> THEN <<>>
    ELSE IF IsSpace(s[Len(s)]) THEN trimEnd(SubSeq(s, 1, Len(s) - 1)) ELSE s

trim(s) == trimEnd(trimStart(s))

\* String.prototype.slice(from, to) with negative indices counted from the end
SliceIndex(s, i) == IF i < 0 THEN Max(Len(s) + i, 0) ELSE Min(i, Len(s))
slice(s, from, to) == SubSeq(s, SliceIndex(s, from) + 1, SliceIndex(s, to))

\* String.prototype.padStart(width, ch)
RECURSIVE padStart(_, _, _)
padStart(s, width, ch) ==
    IF Len(s) >= width THEN s ELSE padStart(<<ch>> \o s, width, ch)

\* String(n) for an integer n
RECURSIVE NatToString(_)
NatToString(n) ==
    IF n < 10 THEN <<DigitChars[n + 1]>>
    ELSE NatToString(n \div 10) \o <<DigitChars[(n % 10) + 1]>>

IntToString(n) == IF n < 0 THEN <<"-">> \o NatToString(0 - n) ELSE NatToString(n)

\* Number(s) for a string of decimal digits
IsDigits(s) == s # <<>> /\ \A i \in 1..Len(s) : IsDigit(s[i])

RECURSIVE DigitsToNat(_)
DigitsToNat(s) ==
    IF s = <<>> THEN 0
    ELSE 10 * DigitsToNat(SubSeq(s, 1, Len(s) - 1)) + CharToDigit(s[Len(s)])

\* string results: a string, undefined, or a thrown error
Str(s) == [t |-> "str", s |-> s, msg |-> ""]
StrThrow(m) == [t |-> "throw", s |-> <<>>, msg |-> m]
StrUndefined == [t |-> "undefined", s |-> <<>>, msg |-> ""]

-----------------------------------------------------------------------------
(* Dates: the parts of Date the code uses, on the proleptic Gregorian      *)
(* calendar in UTC.                                                        *)

SecondsPerDay == 86400

IsLeapYear(y) == (y % 4 = 0 /\ y % 100 # 0) \/ y % 400 = 0

DaysInMonth(y, m) ==
    IF m = 2 THEN (IF IsLeapYear(y) THEN 29 ELSE 28)
    ELSE IF m \in {4, 6, 9, 11} THEN 30 ELSE 31

IsCalendarDate(y, m, d) == m \in 1..12 /\ d >= 1 /\ d <= DaysInMonth(y, m)

\* days since 1970-01-01 of a calendar date
DaysFromCivil(y, m, d) ==
    LET yy == IF m <= 2 THEN y - 1 ELSE y
        era == yy \div 400
        yoe == yy - era * 400
        mp == (m + 9) % 12
        doy == (153 * mp + 2) \div 5 + d - 1
        doe == yoe * 365 + yoe \div 4 - yoe \div 100 + doy
    IN era * 146097 + doe - 719468

\* the calendar date of a day number, computed in stages: the day of the
\* 400-year era, the year of the era, the day of the year, the month
CivilOfMonth(era, yoe, doy, mp) ==
    [y |-> yoe + era * 400 + (IF mp < 10 THEN 0 ELSE 1),
     m |-> IF mp < 10 THEN mp + 3 ELSE mp - 9,
     d |-> doy - (153 * mp + 2) \div 5 + 1]

CivilOfDayOfYear(era, yoe, doy) == CivilOfMonth(era, yoe, doy, (5 * doy + 2) \div 153)

CivilOfYearOfEra(era, doe, yoe) ==
    CivilOfDayOfYear(era, yoe, doe - (365 * yoe + yoe \div 4 - yoe \div 100))

CivilOfDayOfEra(era, doe) ==
    CivilOfYearOfEra(era, doe,
                     (doe - doe \div 1460 + doe \div 36524 - doe \div 146096) \div 365)

CivilOfEra(z, era) == CivilOfDayOfEra(era, z - era * 146097)

CivilFromDays(z0) == CivilOfEra(z0 + 719468, (z0 + 719468) \div 146097)

IsoDateOfCivil(date) ==
    padStart(NatToString(date.y), 4, "0") \o <<"-">>
      \o padStart(NatToString(date.m), 2, "0") \o <<"-">>
      \o padStart(NatToString(date.d), 2, "0")

\* Date.prototype.toISOString().slice(0, 10) of a day number
IsoDateOfDays(z) == IsoDateOfCivil(CivilFromDays(z))

\* /^\d{4}-\d{2}-\d{2}$/
MatchesIsoDate(s) ==
    /\ Len(s) = 10
    /\ \A i \in {1, 2, 3, 4, 6, 7, 9, 10} : IsDigit(s[i])
    /\ s[5] = "-" /\ s[8] = "-"

IsoYear(s) == DigitsToNat(SubSeq(s, 1, 4))
IsoMonth(s) == DigitsToNat(SubSeq(s, 6, 7))
IsoDay(s) == DigitsToNat(SubSeq(s, 9, 10))

SecondsOfCivil(y, m, d) ==
    IF IsCalendarDate(y, m, d) THEN DaysFromCivil(y, m, d) * SecondsPerDay ELSE -1

\* Date.parse(s) in whole seconds, or -1 for an invalid date (NaN).  The
\* forms parsed are YYYY-MM-DD and YYYY-MM-DDT00:00:00.000Z with a calendar
\* date; every other string is an invalid date.
DateParseSeconds(s) ==
    IF /\ Len(s) >= 10 /\ MatchesIsoDate(SubSeq(s, 1, 10))
       /\ (Len(s) = 10 \/ (s[11] = "T" /\ s[Len(s)] = "Z"))
      THEN SecondsOfCivil(IsoYear(s), IsoMonth(s), IsoDay(s))
      ELSE -1

-----------------------------------------------------------------------------
(* JSON payloads: an object is a function from its keys to values; a value *)
(* is a number Num(n), a string Str(s), null, or a nested object.          *)

Null == [t |-> "null", v |-> 0, msg |-> ""]
Obj(o) == [t |-> "obj", o |-> o, msg |-> ""]

\* record[key], undefined when the key is missing
Get(record, key) == IF key \in DOMAIN record THEN record[key] ELSE Undefined

IsNullish(x) == x.t \in {"undefined", "null"}

\* a ?? b ?? c ...: the first operand that is neither null nor undefined
RECURSIVE Coalesce(_)
Coalesce(vals) ==
    IF Len(vals) = 1 THEN vals[1]
    ELSE IF ~IsNullish(vals[1]) THEN vals[1] ELSE Coalesce(Tail(vals))

\* the values of the keys of a record, in the order given
Lookup(record, keys) == [i \in 1..Len(keys) |-> Get(record, keys[i])]

-----------------------------------------------------------------------------
(* integrations/alpaca/normalize.ts *)

\* STRIKE_EPSILON = 1e-6, as the denominator of 1 / 1000000
StrikeEpsilonInverse == 1000000

\* Number(value) of a string skips the white space around the digits; the
\* numeric strings of the model are strings of digits
toFiniteNumber(value) ==
    IF value.t = "num" THEN value
    ELSE IF value.t = "str" /\ trim(value.s) # <<>> /\ IsDigits(trim(value.s))
      THEN Num(DigitsToNat(trim(value.s)))
    ELSE Undefined

Abs(a) == IF a < 0 THEN 0 - a ELSE a

approxEqual(a, b) == Abs(a - b) * StrikeEpsilonInverse <= 1

sanitizeOptionSymbol(symbol) ==
    toUpperCase(SelectSeq(symbol, LAMBDA c : ~IsSpace(c)))

\* Numbers above 10^10 (milliseconds) are beyond the integers of the model:
\* every numeric expiration is a count of seconds.
NormalizeParsed(seconds) ==
    IF seconds < 0
      THEN StrThrow("Unable to interpret expiration. Use YYYY-MM-DD.")
      ELSE Str(IsoDateOfDays(seconds \div SecondsPerDay))

NormalizeNumeric(numeric) == Str(IsoDateOfDays(numeric \div SecondsPerDay))

NormalizeTrimmed(trimmed) ==
    IF trimmed = <<>> THEN StrThrow("Expiration value cannot be empty.")
    ELSE IF MatchesIsoDate(trimmed) THEN Str(trimmed)
    ELSE IF IsDigits(trimmed) /\ DigitsToNat(trimmed) > 0
      THEN NormalizeNumeric(DigitsToNat(trimmed))
    ELSE NormalizeParsed(DateParseSeconds(trimmed))

normalizeExpirationInput(input) == NormalizeTrimmed(trim(input))

ExpirationSeconds(seconds) ==
    IF seconds < 0 THEN Throw("Unable to parse expiration date.") ELSE Num(seconds)

expirationToUnixSeconds(expiration) == ExpirationSeconds(DateParseSeconds(expiration))

OccSymbol(upper, date, strike, type) ==
    Str(upper \o slice(NatToString(date.y), -2, 4)
              \o padStart(NatToString(date.m), 2, "0")
              \o padStart(NatToString(date.d), 2, "0")
              \o <<type>>
              \o padStart(IntToString(strike.v * 1000), 8, "0"))

OccOfParsed(upper, parsed, strike, type) ==
    IF upper = <<>> THEN StrThrow("Underlying symbol cannot be empty.")
    ELSE IF parsed < 0 THEN StrThrow("Invalid expiration date.")
    ELSE IF ~IsFinite(strike) THEN StrThrow("Invalid strike price.")
    ELSE OccSymbol(upper, CivilFromDays(parsed \div SecondsPerDay), strike, type)

buildOccOptionSymbol(underlying, expiration, strike, type) ==
    OccOfParsed(toUpperCase(trim(underlying)),
                DateParseSeconds(expiration \o <<"T", "0", "0", ":", "0", "0", ":", "0", "0", "Z">>),
                strike, type)

CallWords == {<<"c", "a", "l", "l">>, <<"c">>, <<"b", "u", "y", "_", "c", "a", "l", "l">>}
PutWords == {<<"p", "u", "t">>, <<"p">>, <<"b", "u", "y", "_", "p", "u", "t">>}

\* the type with the symbol's type character consulted before the field
optionTypeFromSymbolOrField_symbolFirst(symbol, field) ==
    LET normalized == toLowerCase(trim(field.s))
        typeChar == slice(sanitizeOptionSymbol(symbol), -9, -8)
    IN IF symbol # <<>> /\ typeChar = <<"C">> THEN "call"
       ELSE IF symbol # <<>> /\ typeChar = <<"P">> THEN "put"
       ELSE IF field.t = "str" /\ normalized \in CallWords THEN "call"
       ELSE IF field.t = "str" /\ normalized \in PutWords THEN "put"
       ELSE "undefined"

optionTypeFromSymbolOrField(symbol, field) ==
    LET normalized == toLowerCase(trim(field.s))
        typeChar == slice(sanitizeOptionSymbol(symbol), -9, -8)
    IN IF field.t = "str" /\ normalized \in CallWords THEN "call"
       ELSE IF field.t = "str" /\ normalized \in PutWords THEN "put"
       ELSE IF symbol # <<>> /\ typeChar = <<"C">> THEN "call"
       ELSE IF symbol # <<>> /\ typeChar = <<"P">> THEN "put"
       ELSE "undefined"

AskAliases == <<"ask_price", "ask", "ap", "askPrice", "ask_value">>
BidAliases == <<"bid_price", "bid", "bp", "bidPrice", "bid_value">>
LastAliases == <<"last_price", "last", "lp", "lastPrice", "trade_price">>
MidAliases == <<"mid_price", "mid", "mark_price", "mark", "theoretical">>

\* toFiniteNumber(raw.k1 ?? raw.k2 ?? ...): the first alias present decides
FirstFinite_firstPresent(raw, keys) == toFiniteNumber(Coalesce(Lookup(raw, keys)))

\* toFiniteNumber(raw.k1) ?? toFiniteNumber(raw.k2) ?? ...
FirstFinite(raw, keys) ==
    Coalesce([i \in 1..Len(keys) |-> toFiniteNumber(Get(raw, keys[i]))])

NoQuote == [t |-> "undefined", ask |-> Undefined, bid |-> Undefined,
            last |-> Undefined, mid |-> Undefined]

QuoteOf(ask, bid, last, mid) ==
    IF ask.t # "undefined" \/ bid.t # "undefined"
       \/ last.t # "undefined" \/ mid.t # "undefined"
      THEN [t |-> "quote", ask |-> ask, bid |-> bid, last |-> last, mid |-> mid]
      ELSE NoQuote

extractQuoteFields(raw) ==
    QuoteOf(FirstFinite(raw, AskAliases), FirstFinite(raw, BidAliases),
            FirstFinite(raw, LastAliases), FirstFinite(raw, MidAliases))

QuoteContainers == <<"quote", "quotes", "last_quote", "latestQuote", "latest_quote">>

NestedQuote(maybeQuote) ==
    IF maybeQuote.t = "obj" THEN extractQuoteFields(maybeQuote.o) ELSE NoQuote

\* the nested lookup trying every container until one yields a quote
DirectOrNested_anyContainer(raw, direct) ==
    IF direct.t = "quote" THEN direct
    ELSE LET nested == SelectSeq([i \in 1..Len(QuoteContainers) |->
                                     NestedQuote(Get(raw, QuoteContainers[i]))],
                                 LAMBDA q : q.t = "quote")
         IN IF nested = <<>> THEN NoQuote ELSE Head(nested)

DirectOrNested(raw, direct) ==
    IF direct.t = "quote" THEN direct
    ELSE NestedQuote(Coalesce(Lookup(raw, QuoteContainers)))

\* raw is a JSON value
normalizeQuote(raw) ==
    IF raw.t # "obj" THEN NoQuote ELSE DirectOrNested(raw.o, extractQuoteFields(raw.o))

\* (bid + ask) / 2; bid + ask is even for every quote of the model, so the
\* mean is exact
QuoteMean(bid, ask) ==
    IF bid.t = "num" /\ ask.t = "num" THEN Num((bid.v + ask.v) \div 2) ELSE NaN

\* the mid with the last trade consulted before the mid field
computeMidFromQuote_lastFirst(quote) ==
    IF quote.bid.t # "undefined" /\ quote.ask.t # "undefined"
       /\ IsFinite(QuoteMean(quote.bid, quote.ask))
      THEN QuoteMean(quote.bid, quote.ask)
    ELSE IF quote.last.t # "undefined" /\ IsFinite(quote.last) THEN quote.last
    ELSE IF quote.mid.t # "undefined" /\ IsFinite(quote.mid) THEN quote.mid
    ELSE IF quote.ask.t # "undefined" /\ IsFinite(quote.ask) THEN quote.ask
    ELSE IF quote.bid.t # "undefined" /\ IsFinite(quote.bid) THEN quote.bid
    ELSE Throw("No usable quote data available.")

computeMidFromQuote(quote) ==
    IF quote.bid.t # "undefined" /\ quote.ask.t # "undefined"
       /\ IsFinite(QuoteMean(quote.bid, quote.ask))
      THEN QuoteMean(quote.bid, quote.ask)
    ELSE IF quote.mid.t # "undefined" /\ IsFinite(quote.mid) THEN quote.mid
    ELSE IF quote.last.t # "undefined" /\ IsFinite(quote.last) THEN quote.last
    ELSE IF quote.ask.t # "undefined" /\ IsFinite(quote.ask) THEN quote.ask
    ELSE IF quote.bid.t # "undefined" /\ IsFinite(quote.bid) THEN quote.bid
    ELSE Throw("No usable quote data available.")

-----------------------------------------------------------------------------
(* integrations/alpaca/options.ts: the Chain Resolver *)

Arr(a) == [t |-> "arr", a |-> a, msg |-> ""]

\* the time part "T00:00:00.000Z" of Date.prototype.toISOString()
IsoTimeSuffix == <<"T", "0", "0", ":", "0", "0", ":", "0", "0", ".", "0", "0", "0", "Z">>

SymbolAliases == <<"symbol", "option_symbol", "occ_symbol", "OCCSymbol", "contract_symbol">>
TypeAliases == <<"type", "option_type", "class">>
StrikeAliases == <<"strike_price", "strike", "strikePrice", "strike_price_value">>
ExpirationAliases == <<"expiration_date", "expiration", "expiry", "expirationDate",
                       "exp_date", "option_expiration">>

Includes(s, c) == \E i \in 1..Len(s) : s[i] = c

\* the expiration read from the record's own expiration field
ExpirationFromField(expirationRaw) ==
    IF expirationRaw.t = "str" /\ trim(expirationRaw.s) # <<>>
      THEN Str(trim(expirationRaw.s))
    ELSE IF expirationRaw.t = "num" /\ expirationRaw.v # 0
      THEN Str(IsoDateOfDays(expirationRaw.v \div SecondsPerDay) \o IsoTimeSuffix)
    ELSE StrUndefined

ExpirationFromDigits(year, month, day) ==
    IF month >= 1 /\ month <= 12 /\ day >= 1 /\ day <= 31
      THEN Str(IsoDateOfDays(DaysFromCivil(year, month, 1) + day - 1) \o IsoTimeSuffix)
      ELSE StrUndefined

ExpirationFromDateChars(yy, mm, dd) ==
    IF IsDigits(yy) /\ IsDigits(mm) /\ IsDigits(dd)
      THEN ExpirationFromDigits(2000 + DigitsToNat(yy), DigitsToNat(mm), DigitsToNat(dd))
      ELSE StrUndefined

ExpirationFromSanitized(sanitized) ==
    IF Len(sanitized) >= 15
      THEN ExpirationFromDateChars(slice(sanitized, -15, -13), slice(sanitized, -13, -11),
                                   slice(sanitized, -11, -9))
      ELSE StrUndefined

\* lines 61-71: the expiration derived from the date digits of an OCC symbol
ExpirationFromSymbol(symbol) == ExpirationFromSanitized(sanitizeOptionSymbol(symbol))

\* `${normalizedSymbol}-${expirationIso}-${strike}`
SeenKey(normalizedSymbol, expirationIso, strike) ==
    normalizedSymbol \o <<"-">> \o expirationIso \o <<"-">> \o IntToString(strike)

\* lines 77-87: the contract is recorded unless its key was seen
Record(candidate, normalizedSymbol, strike, expirationIso, key, acc) ==
    IF key \in acc.seen THEN acc
    ELSE [acc EXCEPT !.seen = @ \cup {key},
                     !.results = Append(@, [symbol |-> normalizedSymbol,
                                            strike |-> strike,
                                            expiration |-> expirationIso,
                                            quote |-> normalizeQuote(Obj(candidate))])]

\* lines 74-76; acc.threw when normalizeExpirationInput raised
ConsiderIso(candidate, normalizedSymbol, strike, expirationIso, acc) ==
    IF expirationIso.t = "throw" THEN [acc EXCEPT !.threw = TRUE]
    ELSE Record(candidate, normalizedSymbol, strike, expirationIso.s,
                SeenKey(normalizedSymbol, expirationIso.s, strike), acc)

\* line 74
ExpirationIso(expiration) ==
    IF Includes(expiration, "T") THEN Str(slice(expiration, 0, 10))
    ELSE normalizeExpirationInput(expiration)

\* line 73
ConsiderExpiration(candidate, symbol, strike, expiration, acc) ==
    IF expiration.t # "str" THEN acc
    ELSE ConsiderIso(candidate, sanitizeOptionSymbol(symbol), strike,
                     ExpirationIso(expiration.s), acc)

\* line 61: the symbol's date only if the field gave none
ExpirationOr(fromField, symbol) ==
    IF fromField.t = "str" THEN fromField ELSE ExpirationFromSymbol(symbol)

\* lines 44-71
ConsiderStrike(candidate, symbol, strike, acc) ==
    IF strike.t = "undefined" THEN acc
    ELSE ConsiderExpiration(
             candidate, symbol, strike.v,
             ExpirationOr(ExpirationFromField(Coalesce(Lookup(candidate, ExpirationAliases))),
                          symbol),
             acc)

\* lines 34-43
ConsiderSymbol(candidate, symbol, acc) ==
    IF symbol = <<>> THEN acc
    ELSE IF optionTypeFromSymbolOrField(symbol, Coalesce(Lookup(candidate, TypeAliases)))
              # "call"
      THEN acc
    ELSE ConsiderStrike(candidate, symbol, FirstFinite(candidate, StrikeAliases), acc)

\* line 33
StringOrEmpty(value) == IF value.t = "str" THEN value.s ELSE <<>>

\* consider(candidate) on the accumulator [results, seen, threw]
consider(candidate, acc) ==
    ConsiderSymbol(candidate, StringOrEmpty(Coalesce(Lookup(candidate, SymbolAliases))), acc)

\* "looks like an option contract and carries price fields"
LooksLikeContract(record) ==
    /\ \E k \in {"symbol", "occ_symbol", "option_symbol"} : k \in DOMAIN record
    /\ \E k \in {"strike", "strike_price", "strikePrice"} : k \in DOMAIN record
    /\ \E k \in {"ask", "bid", "ask_price", "bid_price"} : k \in DOMAIN record

\* Object.keys(record) in one fixed order
RECURSIVE KeysOf(_)
KeysOf(keys) ==
    IF keys = {} THEN <<>>
    ELSE LET k == CHOOSE x \in keys : TRUE IN <<k>> \o KeysOf(keys \ {k})

\* lines 103-106: the children that are objects or arrays
ChildrenOf(record, keys) ==
    SelectSeq([i \in 1..Len(keys) |-> record[keys[i]]],
              LAMBDA child : child.t \in {"obj", "arr"})

\* line 102
Considered(record, acc) == IF LooksLikeContract(record) THEN consider(record, acc) ELSE acc

\* traverse(value); an exception raised by consider ends the traversal
RECURSIVE traverse(_, _)
RECURSIVE traverseAll(_, _)
traverse(value, acc) ==
    IF acc.threw THEN acc
    ELSE IF value.t = "arr" THEN traverseAll(value.a, acc)
    ELSE IF value.t = "obj"
      THEN traverseAll(ChildrenOf(value.o, KeysOf(DOMAIN value.o)), Considered(value.o, acc))
    ELSE acc

traverseAll(values, acc) ==
    IF values = <<>> THEN acc
    ELSE traverseAll(Tail(values), traverse(Head(values), acc))

gatherContractsFromResponse(payload) ==
    traverse(payload, [results |-> <<>>, seen |-> {}, threw |-> FALSE])

NoContract == [symbol |-> <<>>, strike |-> 0, expiration |-> <<>>, quote |-> NoQuote]
IsContract(c) == c.symbol # <<>>

\* the Map of buckets as a sequence in insertion order
BucketIndex(buckets, expiration) ==
    IF \E i \in 1..Len(buckets) : buckets[i].expiration = expiration
      THEN CHOOSE i \in 1..Len(buckets) : buckets[i].expiration = expiration
      ELSE 0

SetLong(buckets, contract) ==
    LET i == BucketIndex(buckets, contract.expiration) IN
    IF i = 0 THEN Append(buckets, [expiration |-> contract.expiration,
                                   long |-> contract, short |-> NoContract])
    ELSE [buckets EXCEPT ![i].long = contract]

SetShort(buckets, contract) ==
    LET i == BucketIndex(buckets, contract.expiration) IN
    IF i = 0 THEN Append(buckets, [expiration |-> contract.expiration,
                                   long |-> NoContract, short |-> contract])
    ELSE [buckets EXCEPT ![i].short = contract]

\* lines 123-132, one iteration of the loop over contracts; acc.threw when
\* normalizeExpirationInput raised
Bucketed(contract, longStrike, shortStrike, explicitExpiration, acc) ==
    LET normalized == normalizeExpirationInput(contract.expiration) IN
    IF explicitExpiration.t = "str" /\ normalized.t = "throw"
      THEN [acc EXCEPT !.threw = TRUE]
    ELSE IF explicitExpiration.t = "str" /\ normalized.s # explicitExpiration.s
      THEN acc
    ELSE IF approxEqual(contract.strike, longStrike)
      THEN [acc EXCEPT !.buckets = SetLong(@, contract)]
    ELSE IF approxEqual(contract.strike, shortStrike)
      THEN [acc EXCEPT !.buckets = SetShort(@, contract)]
    ELSE acc

\* the loop over contracts, left when an iteration raised
RECURSIVE FillBuckets(_, _, _, _, _)
FillBuckets(contracts, longStrike, shortStrike, explicitExpiration, acc) ==
    IF contracts = <<>> \/ acc.threw THEN acc
    ELSE FillBuckets(Tail(contracts), longStrike, shortStrike, explicitExpiration,
                     Bucketed(Head(contracts), longStrike, shortStrike,
                              explicitExpiration, acc))

NoMatch == [t |-> "none", expiration |-> <<>>, long |-> NoContract, short |-> NoContract]
MatchThrow == [t |-> "throw", expiration |-> <<>>, long |-> NoContract, short |-> NoContract]

\* Date.parse(a.expiration) - Date.parse(b.expiration) < 0; the difference is
\* NaN, which sort takes for 0, when either expiration is not a date
SortsBefore(a, b) ==
    /\ DateParseSeconds(a.expiration) >= 0
    /\ DateParseSeconds(b.expiration) >= 0
    /\ DateParseSeconds(a.expiration) < DateParseSeconds(b.expiration)

\* the candidates in insertion order, unsorted
Earliest_unsorted(candidates) == 1

\* candidates.sort(by Date.parse(expiration))[0], the sort being stable: the
\* first candidate, in insertion order, that no candidate sorts before and
\* that sorts before every candidate inserted ahead of it
Earliest(candidates) ==
    CHOOSE i \in 1..Len(candidates) :
        /\ \A j \in 1..Len(candidates) : ~SortsBefore(candidates[j], candidates[i])
        /\ \A j \in 1..(i - 1) : SortsBefore(candidates[i], candidates[j])

MatchOf(candidate) ==
    [t |-> "match", expiration |-> candidate.expiration,
     long |-> candidate.long, short |-> candidate.short]

\* lines 141-143
BestCandidate(candidates) ==
    IF candidates = <<>> THEN NoMatch ELSE MatchOf(candidates[Earliest(candidates)])

\* lines 135-140: the buckets holding both legs
CandidatesOf(filled) ==
    IF filled.threw THEN MatchThrow
    ELSE BestCandidate(SelectSeq(filled.buckets,
                                 LAMBDA pair : IsContract(pair.long) /\ IsContract(pair.short)))

pickBestMatch(contracts, longStrike, shortStrike, explicitExpiration) ==
    CandidatesOf(FillBuckets(contracts, longStrike, shortStrike, explicitExpiration,
                             [buckets |-> <<>>, threw |-> FALSE]))

-----------------------------------------------------------------------------
(* integrations/alpaca/options.ts: fetchLatestQuotes *)

QuoteSymbolAliases == <<"symbol", "option_symbol", "occ_symbol", "contract_symbol">>
QuoteNodeAliases == <<"quotes", "data", "results">>

\* accumulated[symbol] = quote
Put(accumulated, symbol, quote) ==
    [s \in DOMAIN accumulated \cup {symbol} |->
        IF s = symbol THEN quote ELSE accumulated[s]]

Has(accumulated, symbol) == symbol \in DOMAIN accumulated

\* [...new Set(symbols)]: duplicates dropped, first occurrences kept in order
RECURSIVE Unique(_)
Unique(symbols) ==
    IF symbols = <<>> THEN <<>>
    ELSE LET front == Unique(SubSeq(symbols, 1, Len(symbols) - 1))
             last == symbols[Len(symbols)]
         IN IF \E i \in 1..Len(front) : front[i] = last THEN front
            ELSE Append(front, last)

uniqueSymbols(symbols) ==
    Unique([i \in 1..Len(symbols) |-> sanitizeOptionSymbol(symbols[i])])

\* lines 205-210: one entry of an array quotesNode
AccumulateSymbol(symbol, quote, accumulated) ==
    IF symbol = <<>> \/ quote.t # "quote" THEN accumulated
    ELSE Put(accumulated, symbol, quote)

SanitizedOrEmpty(symbolRaw) ==
    IF symbolRaw.t = "str" THEN sanitizeOptionSymbol(symbolRaw.s) ELSE <<>>

AccumulateEntry(entry, accumulated) ==
    IF entry.t # "obj" THEN accumulated
    ELSE AccumulateSymbol(SanitizedOrEmpty(Coalesce(Lookup(entry.o, QuoteSymbolAliases))),
                          normalizeQuote(entry), accumulated)

\* the loop over the entries of an array quotesNode
RECURSIVE AccumulateArray(_, _)
AccumulateArray(entries, accumulated) ==
    IF entries = <<>> THEN accumulated
    ELSE AccumulateArray(Tail(entries), AccumulateEntry(Head(entries), accumulated))

\* lines 214-217: one [key, value] of an object quotesNode
AccumulateKey(key, quote, accumulated) ==
    IF key = <<>> \/ quote.t # "quote" THEN accumulated
    ELSE Put(accumulated, sanitizeOptionSymbol(key), quote)

\* the loop over Object.entries of an object quotesNode
RECURSIVE AccumulateObject(_, _, _)
AccumulateObject(keys, node, accumulated) ==
    IF keys = <<>> THEN accumulated
    ELSE AccumulateObject(Tail(keys), node,
                          AccumulateKey(Head(keys), normalizeQuote(node[Head(keys)]),
                                        accumulated))

\* the body of the endpoint loop after a successful fetchJson
AccumulateQuotes(payload, accumulated) ==
    IF payload.t # "obj" THEN accumulated
    ELSE LET quotesNode == Coalesce(Lookup(payload.o, QuoteNodeAliases)) IN
         IF quotesNode.t = "arr" THEN AccumulateArray(quotesNode.a, accumulated)
         ELSE IF quotesNode.t = "obj"
           THEN AccumulateObject(KeysOf(DOMAIN quotesNode.o), quotesNode.o, accumulated)
         ELSE accumulated

AllFound(symbols, accumulated) ==
    \A i \in 1..Len(symbols) : Has(accumulated, symbols[i])

-----------------------------------------------------------------------------
(* The upstream API: one underlying, call contracts at two strikes and two *)
(* expirations, each with a quote of its own in a response shape of its    *)
(* own.  A response delivers any part of it, or the request fails.         *)

Date1 == <<"2", "0", "2", "4", "-", "0", "9", "-", "2", "0">>
Date2 == <<"2", "0", "2", "4", "-", "1", "0", "-", "1", "8">>
Date2Seconds == <<"1", "7", "2", "9", "2", "0", "9", "6", "0", "0">>

SymLong1 == <<"A", "2", "4", "0", "9", "2", "0", "C", "0", "0", "1", "0", "0", "0", "0", "0">>
SymShort1 == <<"A", "2", "4", "0", "9", "2", "0", "C", "0", "0", "1", "1", "0", "0", "0", "0">>
SymLong2 == <<"A", "2", "4", "1", "0", "1", "8", "C", "0", "0", "1", "0", "0", "0", "0", "0">>
SymShort2 == <<"A", "2", "4", "1", "0", "1", "8", "C", "0", "0", "1", "1", "0", "0", "0", "0">>

MarketSymbols == {SymLong1, SymShort1, SymLong2, SymShort2}

\* the price fields upstream reports for a contract
MarketFields(symbol) ==
    IF symbol = SymLong1 THEN [bid_price |-> Num(6), ask_price |-> Num(8)]
    ELSE IF symbol = SymShort1 THEN [bid |-> Null, last |-> Str(<<"4">>)]
    ELSE IF symbol = SymLong2 THEN [bid |-> Null, quote |-> Obj([bp |-> Num(2), ap |-> Num(4)])]
    ELSE [ask |-> Null, mid |-> Num(5)]

\* the mid of the quote upstream holds for a contract
MarketMid(symbol) ==
    IF symbol = SymLong1 THEN 7
    ELSE IF symbol = SymShort1 THEN 4
    ELSE IF symbol = SymLong2 THEN 3
    ELSE 5

\* the identity fields of a contract in a chain response
ChainIdentity(symbol) ==
    IF symbol = SymLong1
      THEN [symbol |-> Str(symbol), strike_price |-> Num(100), expiration_date |-> Str(Date1),
            type |-> Str(<<"c", "a", "l", "l">>)]
    ELSE IF symbol = SymShort1
      THEN [option_symbol |-> Str(toLowerCase(symbol)), strike |-> Str(<<"1", "1", "0">>)]
    ELSE IF symbol = SymLong2
      THEN [occ_symbol |-> Str(symbol), strikePrice |-> Num(100), expiration |-> Num(1729209600)]
    ELSE [symbol |-> Str(symbol), strike_price |-> Num(110),
          expiry |-> Str(Date2 \o IsoTimeSuffix)]

Quoted(symbol) == Obj(ChainIdentity(symbol) @@ MarketFields(symbol))
Unquoted(symbol) == Obj(ChainIdentity(symbol) @@ [bid_price |-> Null])

\* a contract upstream lists with an expiration that is not a date
Misdated(symbol, text) ==
    Obj([symbol |-> Str(symbol), strike_price |-> Num(100), expiration_date |-> Str(text)]
        @@ MarketFields(symbol))

Soon == <<"s", "o", "o", "n">>
ToBeDecided == <<"T", "B", "D">>

ChainPage(body, token) == Obj([option_contracts |-> Arr(body), next_page_token |-> token])

\* the pages upstream may answer a chain request with: last pages (no token,
\* or a blank one), pages that name a next page, and pages that list a
\* contract with an expiration that is not a date
ChainPayloads ==
    { ChainPage(<<>>, Null),
      ChainPage(<<Quoted(SymLong1), Quoted(SymShort1)>>, Null),
      ChainPage(<<Unquoted(SymLong1), Unquoted(SymShort1)>>, Null),
      ChainPage(<<Unquoted(SymShort1)>>, Str(<<" ">>)),
      ChainPage(<<Quoted(SymShort2), Quoted(SymLong2)>>, Str(<<"n">>)),
      ChainPage(<<Quoted(SymLong1)>>, Str(<<"n">>)),
      ChainPage(<<Quoted(SymShort1), Misdated(SymLong1, Soon), Quoted(SymLong1)>>, Null),
      ChainPage(<<Quoted(SymLong1), Misdated(SymLong1, ToBeDecided), Quoted(SymShort1)>>, Null) }

\* the quote responses to a request for the given symbols: the quotes of any
\* of those upstream knows, as an array of entries or as a map by symbol
QuoteEntry(symbol) == Obj([symbol |-> Str(symbol)] @@ MarketFields(symbol))

QuoteShapes == {"array", "map"}

\* the symbols a response to a quote request may deliver quotes for
Deliverable(symbols) == SUBSET ({symbols[i] : i \in 1..Len(symbols)} \cap MarketSymbols)

QuotePayload(delivered, shape) ==
    IF shape = "array"
      THEN Obj([quotes |-> Arr([i \in 1..Len(KeysOf(delivered)) |->
                                   QuoteEntry(KeysOf(delivered)[i])])])
      ELSE Obj([quotes |-> Obj([s \in delivered |-> Obj(MarketFields(s))])])

\* the expiration upstream lists a contract under
MarketExpiration(symbol) == IF symbol \in {SymLong1, SymShort1} THEN Date1 ELSE Date2

-----------------------------------------------------------------------------
(* integrations/alpaca/options.ts: fetchSpreadMidDebit, one action per     *)
(* stretch of code between two awaits                                      *)

MaxPages == 4
NumEndpoints == 2

NoError == [msg |-> "", symbol |-> <<>>, longStrike |-> 0, shortStrike |-> 0,
            expiration |-> <<>>, leg |-> ""]

Pending == [t |-> "pending", netDebitPerShare |-> 0, longMid |-> 0, shortMid |-> 0,
            expiration |-> 0, err |-> NoError]

Thrown(err) == [Pending EXCEPT !.t = "throw", !.err = err]

IdleQuotes == [caller |-> "", symbols |-> <<>>, endpoint |-> 0, accumulated |-> <<>>]
IdleChain == [endpoint |-> 0, page |-> 0, pageToken |-> StrUndefined, collected |-> <<>>]
NoLegs == [long |-> NoContract, short |-> NoContract, resolvedExpiration |-> StrUndefined]

NoLocals == [symbol |-> <<>>, normalizedExpiration |-> StrUndefined,
             longSymbol |-> StrUndefined, shortSymbol |-> StrUndefined]

\* the symbol check without the trim
SymbolMissing_untrimmed == params.symbol = <<>>

\* !rawSymbol || !rawSymbol.trim()
SymbolMissing == params.symbol = <<>> \/ trim(params.symbol) = <<>>

\* const symbol = rawSymbol.trim().toUpperCase()
Symbol == toUpperCase(trim(params.symbol))

\* const normalizedExpiration = expiration ? normalizeExpirationInput(expiration) : undefined
NormalizedExpiration ==
    IF params.expiration.t = "str" /\ params.expiration.s # <<>>
      THEN normalizeExpirationInput(params.expiration.s)
      ELSE StrUndefined

LongSymbol == buildOccOptionSymbol(Symbol, NormalizedExpiration.s, params.longStrike, "C")
ShortSymbol == buildOccOptionSymbol(Symbol, NormalizedExpiration.s, params.shortStrike, "C")

\* every chain payload of the model with the contracts gathered from it
GatheredFromPayload ==
    [payload \in ChainPayloads |-> gatherContractsFromResponse(payload)]

\* a request in the log of requests issued, with the symbols asked for and
\* the symbols the response delivered quotes for
Request(api, variant, ok, symbols, delivered) ==
    [api |-> api, variant |-> variant, ok |-> ok, symbols |-> symbols,
     delivered |-> delivered]

Throws(err) ==
    /\ fpc' = "settled"
    /\ outcome' = Thrown(err)
    /\ quotesCall' = IdleQuotes
    /\ chainCall' = IdleChain

\* the missing-quote checks with the short leg first
MissingQuoteError_shortFirst(long, short) ==
    IF short.quote.t # "quote"
      THEN [NoError EXCEPT !.msg = "Missing quote data for short strike",
                           !.leg = "short",
                           !.shortStrike = params.shortStrike.v,
                           !.symbol = short.symbol]
    ELSE IF long.quote.t # "quote"
      THEN [NoError EXCEPT !.msg = "Missing quote data for long strike",
                           !.leg = "long",
                           !.longStrike = params.longStrike.v,
                           !.symbol = long.symbol]
    ELSE NoError

\* lines 286-287: the error for a leg without a quote, NoError if both have one
MissingQuoteError(long, short) ==
    IF long.quote.t # "quote"
      THEN [NoError EXCEPT !.msg = "Missing quote data for long strike",
                           !.leg = "long",
                           !.longStrike = params.longStrike.v,
                           !.symbol = long.symbol]
    ELSE IF short.quote.t # "quote"
      THEN [NoError EXCEPT !.msg = "Missing quote data for short strike",
                           !.leg = "short",
                           !.shortStrike = params.shortStrike.v,
                           !.symbol = short.symbol]
    ELSE NoError

\* lines 286-293: the missing-quote errors, the mids and the result
Finish(long, short, resolvedExpiration) ==
    LET longMid == computeMidFromQuote(long.quote)
        shortMid == computeMidFromQuote(short.quote)
        expirationSeconds == expirationToUnixSeconds(resolvedExpiration)
    IN /\ legs' = [long |-> long, short |-> short,
                   resolvedExpiration |-> Str(resolvedExpiration)]
       /\ IF MissingQuoteError(long, short) # NoError
            THEN Throws(MissingQuoteError(long, short))
          ELSE IF longMid.t = "throw"
            THEN Throws([NoError EXCEPT !.msg = longMid.msg, !.symbol = long.symbol])
          ELSE IF shortMid.t = "throw"
            THEN Throws([NoError EXCEPT !.msg = shortMid.msg, !.symbol = short.symbol])
          ELSE IF expirationSeconds.t = "throw"
            THEN Throws([NoError EXCEPT !.msg = expirationSeconds.msg,
                                        !.expiration = resolvedExpiration])
          ELSE /\ fpc' = "settled"
               /\ outcome' = [Pending EXCEPT !.t = "result",
                                             !.netDebitPerShare = longMid.v - shortMid.v,
                                             !.longMid = longMid.v,
                                             !.shortMid = shortMid.v,
                                             !.expiration = expirationSeconds.v]
               /\ quotesCall' = IdleQuotes
               /\ chainCall' = IdleChain

\* the follow-up lookup asking for both legs when either lacks a quote
Complete_bothSymbols(long, short, resolvedExpiration) ==
    IF long.quote.t # "quote" \/ short.quote.t # "quote"
      THEN /\ fpc' = "quotes"
           /\ quotesCall' = [caller |-> "followup",
                             symbols |-> uniqueSymbols(<<long.symbol, short.symbol>>),
                             endpoint |-> 1, accumulated |-> <<>>]
           /\ chainCall' = IdleChain
           /\ legs' = [long |-> long, short |-> short,
                       resolvedExpiration |-> Str(resolvedExpiration)]
           /\ UNCHANGED outcome
      ELSE Finish(long, short, resolvedExpiration)

\* lines 276-282: the contracts are resolved; ask for the quotes still missing
Complete(long, short, resolvedExpiration) ==
    LET missingSymbols ==
            (IF long.quote.t # "quote" THEN <<long.symbol>> ELSE <<>>)
            \o (IF short.quote.t # "quote" THEN <<short.symbol>> ELSE <<>>)
    IN IF ~IsContract(long) \/ ~IsContract(short) \/ resolvedExpiration = <<>>
         THEN /\ Throws([NoError EXCEPT !.msg = "Failed to resolve contracts",
                                        !.symbol = locals.symbol])
              /\ UNCHANGED legs
       ELSE IF missingSymbols # <<>>
         THEN /\ fpc' = "quotes"
              /\ quotesCall' = [caller |-> "followup",
                                symbols |-> uniqueSymbols(missingSymbols),
                                endpoint |-> 1, accumulated |-> <<>>]
              /\ chainCall' = IdleChain
              /\ legs' = [long |-> long, short |-> short,
                          resolvedExpiration |-> Str(resolvedExpiration)]
              /\ UNCHANGED outcome
       ELSE Finish(long, short, resolvedExpiration)

\* lines 241-255 and 269: validation, then the first request is prepared
FetchSpreadMidDebit ==
    /\ fpc = "start"
    /\ UNCHANGED <<params, requests, payoffVars>>
    /\ IF SymbolMissing
         THEN /\ Throws([NoError EXCEPT !.msg = "Symbol is required for Alpaca lookup."])
              /\ UNCHANGED <<legs, locals>>
       ELSE IF ~IsFinite(params.longStrike) \/ ~IsFinite(params.shortStrike)
         THEN /\ Throws([NoError EXCEPT
                            !.msg = "Both longStrike and shortStrike must be finite numbers."])
              /\ UNCHANGED <<legs, locals>>
       ELSE IF NormalizedExpiration.t = "throw"
         THEN /\ Throws([NoError EXCEPT !.msg = NormalizedExpiration.msg])
              /\ UNCHANGED <<legs, locals>>
       ELSE IF NormalizedExpiration.t = "str" /\ LongSymbol.t = "throw"
         THEN /\ Throws([NoError EXCEPT !.msg = LongSymbol.msg])
              /\ UNCHANGED <<legs, locals>>
       ELSE IF NormalizedExpiration.t = "str" /\ ShortSymbol.t = "throw"
         THEN /\ Throws([NoError EXCEPT !.msg = ShortSymbol.msg])
              /\ UNCHANGED <<legs, locals>>
       ELSE IF NormalizedExpiration.t = "str"
         THEN /\ fpc' = "quotes"
              /\ locals' = [symbol |-> Symbol, normalizedExpiration |-> NormalizedExpiration,
                            longSymbol |-> LongSymbol, shortSymbol |-> ShortSymbol]
              /\ quotesCall' = [caller |-> "fast",
                                symbols |-> uniqueSymbols(<<LongSymbol.s, ShortSymbol.s>>),
                                endpoint |-> 1, accumulated |-> <<>>]
              /\ legs' = [NoLegs EXCEPT !.resolvedExpiration = NormalizedExpiration]
              /\ UNCHANGED <<chainCall, outcome>>
       ELSE /\ fpc' = "chain"
            /\ locals' = [NoLocals EXCEPT !.symbol = Symbol]
            /\ chainCall' = [IdleChain EXCEPT !.endpoint = 1]
            /\ legs' = NoLegs
            /\ UNCHANGED <<quotesCall, outcome>>

\* the fast path without the shortcut: the chain is fetched in any case
AfterFastQuotes_noShortcut(quotes) ==
    /\ fpc' = "chain"
    /\ chainCall' = [IdleChain EXCEPT !.endpoint = 1]
    /\ quotesCall' = IdleQuotes
    /\ UNCHANGED <<legs, outcome>>

\* lines 256-262: back from the quote lookup of the fast path
AfterFastQuotes(quotes) ==
    LET longKey == sanitizeOptionSymbol(locals.longSymbol.s)
        shortKey == sanitizeOptionSymbol(locals.shortSymbol.s)
        expiration == locals.normalizedExpiration.s
    IN IF Has(quotes, longKey) /\ Has(quotes, shortKey)
         THEN Complete([symbol |-> longKey, strike |-> params.longStrike.v,
                        expiration |-> expiration, quote |-> quotes[longKey]],
                       [symbol |-> shortKey, strike |-> params.shortStrike.v,
                        expiration |-> expiration, quote |-> quotes[shortKey]],
                       expiration)
         ELSE /\ fpc' = "chain"
              /\ chainCall' = [IdleChain EXCEPT !.endpoint = 1]
              /\ quotesCall' = IdleQuotes
              /\ UNCHANGED <<legs, outcome>>

\* the follow-up with each leg taking the quote fetched for the other leg
AfterFollowUpQuotes_crossed(fetched) ==
    LET long == IF legs.long.quote.t # "quote" /\ Has(fetched, legs.short.symbol)
                  THEN [legs.long EXCEPT !.quote = fetched[legs.short.symbol]]
                  ELSE legs.long
        short == IF legs.short.quote.t # "quote" /\ Has(fetched, legs.long.symbol)
                   THEN [legs.short EXCEPT !.quote = fetched[legs.long.symbol]]
                   ELSE legs.short
    IN Finish(long, short, legs.resolvedExpiration.s)

\* lines 283-284: back from the follow-up quote lookup
AfterFollowUpQuotes(fetched) ==
    LET long == IF legs.long.quote.t # "quote" /\ Has(fetched, legs.long.symbol)
                  THEN [legs.long EXCEPT !.quote = fetched[legs.long.symbol]]
                  ELSE legs.long
        short == IF legs.short.quote.t # "quote" /\ Has(fetched, legs.short.symbol)
                   THEN [legs.short EXCEPT !.quote = fetched[legs.short.symbol]]
                   ELSE legs.short
    IN Finish(long, short, legs.resolvedExpiration.s)

\* fetchLatestQuotes after one endpoint: the next endpoint, or the return
QuotesEndpointDone(accumulated, found) ==
    IF found \/ quotesCall.endpoint = NumEndpoints
      THEN IF quotesCall.caller = "fast" THEN AfterFastQuotes(accumulated)
           ELSE AfterFollowUpQuotes(accumulated)
      ELSE /\ quotesCall' = [quotesCall EXCEPT !.endpoint = @ + 1,
                                               !.accumulated = accumulated]
           /\ UNCHANGED <<fpc, chainCall, legs, outcome>>

\* a quote request fails: catch { continue }
QuotesRequestFails ==
    /\ fpc = "quotes"
    /\ requests' = Append(requests, Request("quotes", quotesCall.endpoint, FALSE,
                                            quotesCall.symbols, {}))
    /\ QuotesEndpointDone(quotesCall.accumulated, FALSE)
    /\ UNCHANGED <<params, locals, payoffVars>>

\* a quote request succeeds
QuotesRequestSucceeds ==
    /\ fpc = "quotes"
    /\ \E delivered \in Deliverable(quotesCall.symbols), shape \in QuoteShapes :
          LET payload == QuotePayload(delivered, shape)
              accumulated == AccumulateQuotes(payload, quotesCall.accumulated)
          IN /\ requests' = Append(requests, Request("quotes", quotesCall.endpoint, TRUE,
                                                     quotesCall.symbols, delivered))
             /\ QuotesEndpointDone(accumulated, AllFound(quotesCall.symbols, accumulated))
    /\ UNCHANGED <<params, locals, payoffVars>>

\* the chain lookup without the requested expiration
ChainExpiration_unfiltered == StrUndefined

\* line 152: explicitExpiration ? normalizeExpirationInput(explicitExpiration) : undefined
ChainExpiration ==
    IF locals.normalizedExpiration.t = "str"
      THEN normalizeExpirationInput(locals.normalizedExpiration.s)
      ELSE StrUndefined

\* the next variant starting from the contracts collected so far
AfterChainVariant_carried(match) ==
    IF match.t = "match"
      THEN Complete(match.long, match.short, match.expiration)
    ELSE IF chainCall.endpoint < NumEndpoints
      THEN /\ chainCall' = [IdleChain EXCEPT !.endpoint = chainCall.endpoint + 1,
                                              !.collected = chainCall.collected]
           /\ UNCHANGED <<fpc, quotesCall, legs, outcome>>
    ELSE /\ Throws([NoError EXCEPT !.msg = "Unable to locate both strikes"])
         /\ UNCHANGED legs

\* lines 178-180 and 262-273: the match of a variant, or the next variant
AfterChainVariant(match) ==
    IF match.t = "throw"
      THEN /\ Throws([NoError EXCEPT !.msg = "Unable to interpret expiration. Use YYYY-MM-DD."])
           /\ UNCHANGED legs
    ELSE IF match.t = "match"
      THEN Complete(match.long, match.short, match.expiration)
    ELSE IF chainCall.endpoint < NumEndpoints
      THEN /\ chainCall' = [IdleChain EXCEPT !.endpoint = chainCall.endpoint + 1]
           /\ UNCHANGED <<fpc, quotesCall, legs, outcome>>
    ELSE /\ Throws([NoError EXCEPT
                       !.msg = IF locals.normalizedExpiration.t = "str"
                                 THEN "Unable to locate both strikes at expiration"
                                 ELSE "Unable to locate both strikes",
                       !.symbol = locals.symbol,
                       !.longStrike = params.longStrike.v,
                       !.shortStrike = params.shortStrike.v,
                       !.expiration = locals.normalizedExpiration.s])
         /\ UNCHANGED legs

\* line 177: a variant's pagination is over
ChainEndpointDone(collected) ==
    AfterChainVariant(pickBestMatch(collected, params.longStrike.v, params.shortStrike.v,
                                    ChainExpiration))

\* a chain page request as the log keeps it: the variant and the page,
\* whether it succeeded, and whether the response named a next page
ChainRequest(ok, more) ==
    [api |-> "chain", variant |-> chainCall.endpoint, ok |-> ok, symbols |-> <<>>,
     delivered |-> {}, page |-> chainCall.page, more |-> more]

\* a failed chain page request without the catch: the error reaches the caller
ChainRequestFails_uncaught ==
    /\ fpc = "chain"
    /\ requests' = Append(requests, ChainRequest(FALSE, FALSE))
    /\ Throws([NoError EXCEPT !.msg = "Alpaca request failed"])
    /\ UNCHANGED <<params, locals, legs, payoffVars>>

\* a failed chain page request that is issued again
ChainRequestFails_retried ==
    /\ fpc = "chain"
    /\ requests' = Append(requests, ChainRequest(FALSE, FALSE))
    /\ UNCHANGED <<fpc, quotesCall, chainCall, legs, outcome, params, locals, payoffVars>>

\* a chain page request fails: catch { break }
ChainRequestFails ==
    /\ fpc = "chain"
    /\ requests' = Append(requests, ChainRequest(FALSE, FALSE))
    /\ ChainEndpointDone(chainCall.collected)
    /\ UNCHANGED <<params, locals, payoffVars>>

\* payload.next_page_token ?? payload.nextPageToken, kept if a non-blank string
NextPageToken(payload) ==
    LET next == IF payload.t = "obj"
                  THEN Coalesce(Lookup(payload.o, <<"next_page_token", "nextPageToken">>))
                  ELSE Undefined
    IN IF next.t = "str" /\ trim(next.s) # <<>> THEN Str(next.s) ELSE StrUndefined

\* the pagination of a variant without the cap on the number of pages
PaginationOver_uncapped(threw, pageToken) ==
    threw \/ pageToken.t # "str"

\* lines 162 and 171-174: no further page of this variant is requested
PaginationOver(threw, pageToken) ==
    threw \/ pageToken.t # "str" \/ chainCall.page + 1 >= MaxPages

\* a chain page request succeeds: lines 166-174
ChainRequestSucceeds ==
    /\ fpc = "chain"
    /\ \E payload \in ChainPayloads :
          LET gathered == GatheredFromPayload[payload]
              collected == chainCall.collected \o gathered.results
              pageToken == NextPageToken(payload)
          IN /\ requests' = Append(requests,
                                   ChainRequest(TRUE, pageToken.t = "str"))
             /\ IF PaginationOver(gathered.threw, pageToken)
                  THEN ChainEndpointDone(IF gathered.threw THEN chainCall.collected
                                         ELSE collected)
                  ELSE /\ chainCall' = [chainCall EXCEPT !.page = @ + 1,
                                                         !.pageToken = pageToken,
                                                         !.collected = collected]
                       /\ UNCHANGED <<fpc, quotesCall, legs, outcome>>
    /\ UNCHANGED <<params, locals, payoffVars>>

-----------------------------------------------------------------------------
(* core/sizing/contracts.ts *)

portfolioSize == 100000

\* the sizing without the check of the debit's sign
resolveContracts_anyDebit(contracts, portfolioSizeValueArg, netDebitPerShare, contractSize) ==
    LET portfolioSizeValue == Default(portfolioSizeValueArg, Num(portfolioSize)) IN
    IF ~IsInteger(contractSize) \/ contractSize.v <= 0
      THEN Throw("contractSize must be a positive integer.")
    ELSE IF ~IsFinite(netDebitPerShare)
      THEN Throw("netDebitPerShare must be a finite number.")
    ELSE IF contracts.t # "undefined"
      THEN IF ~IsInteger(contracts) \/ contracts.v <= 0
             THEN Throw("contracts must be a positive integer.")
             ELSE contracts
    ELSE Num(1)

\* the sizing with the portfolio size validated before the explicit count
resolveContracts_portfolioFirst(contracts, portfolioSizeValueArg, netDebitPerShare, contractSize) ==
    LET portfolioSizeValue == Default(portfolioSizeValueArg, Num(portfolioSize)) IN
    IF ~IsInteger(contractSize) \/ contractSize.v <= 0
      THEN Throw("contractSize must be a positive integer.")
    ELSE IF ~IsFinite(netDebitPerShare)
      THEN Throw("netDebitPerShare must be a finite number.")
    ELSE IF netDebitPerShare.v < 0
      THEN Throw("netDebitPerShare (debit) cannot be negative.")
    ELSE IF portfolioSizeValue.t = "undefined" THEN Num(1)
    ELSE IF ~IsFinite(portfolioSizeValue) \/ portfolioSizeValue.v <= 0
      THEN Throw("portfolioSize must be a positive finite number.")
    ELSE IF contracts.t # "undefined"
      THEN IF ~IsInteger(contracts) \/ contracts.v <= 0
             THEN Throw("contracts must be a positive integer.")
             ELSE contracts
    ELSE LET perContractCost == netDebitPerShare.v * contractSize.v IN
         IF perContractCost <= 0 THEN Num(1)
         ELSE LET maxContracts == portfolioSizeValue.v \div perContractCost IN
              IF maxContracts <= 0
                THEN Throw("Portfolio size too small to fund a single contract at this debit.")
                ELSE Num(maxContracts)

\* the sizing without the check that one contract can be funded
resolveContracts_unfunded(contracts, portfolioSizeValueArg, netDebitPerShare, contractSize) ==
    LET portfolioSizeValue == Default(portfolioSizeValueArg, Num(portfolioSize)) IN
    IF ~IsInteger(contractSize) \/ contractSize.v <= 0
      THEN Throw("contractSize must be a positive integer.")
    ELSE IF ~IsFinite(netDebitPerShare)
      THEN Throw("netDebitPerShare must be a finite number.")
    ELSE IF netDebitPerShare.v < 0
      THEN Throw("netDebitPerShare (debit) cannot be negative.")
    ELSE IF contracts.t # "undefined"
      THEN IF ~IsInteger(contracts) \/ contracts.v <= 0
             THEN Throw("contracts must be a positive integer.")
             ELSE contracts
    ELSE IF portfolioSizeValue.t = "undefined" THEN Num(1)
    ELSE IF ~IsFinite(portfolioSizeValue) \/ portfolioSizeValue.v <= 0
      THEN Throw("portfolioSize must be a positive finite number.")
    ELSE LET perContractCost == netDebitPerShare.v * contractSize.v IN
         IF perContractCost <= 0 THEN Num(1)
         ELSE LET maxContracts == portfolioSizeValue.v \div perContractCost IN
              Num(maxContracts)

resolveContracts(contracts, portfolioSizeValueArg, netDebitPerShare, contractSize) ==
    LET portfolioSizeValue == Default(portfolioSizeValueArg, Num(portfolioSize)) IN
    IF ~IsInteger(contractSize) \/ contractSize.v <= 0
      THEN Throw("contractSize must be a positive integer.")
    ELSE IF ~IsFinite(netDebitPerShare)
      THEN Throw("netDebitPerShare must be a finite number.")
    ELSE IF netDebitPerShare.v < 0
      THEN Throw("netDebitPerShare (debit) cannot be negative.")
    ELSE IF contracts.t # "undefined"
      THEN IF ~IsInteger(contracts) \/ contracts.v <= 0
             THEN Throw("contracts must be a positive integer.")
             ELSE contracts
    ELSE IF portfolioSizeValue.t = "undefined" THEN Num(1)
    ELSE IF ~IsFinite(portfolioSizeValue) \/ portfolioSizeValue.v <= 0
      THEN Throw("portfolioSize must be a positive finite number.")
    ELSE LET perContractCost == netDebitPerShare.v * contractSize.v IN
         IF perContractCost <= 0 THEN Num(1)
         ELSE LET maxContracts == portfolioSizeValue.v \div perContractCost IN
              IF maxContracts <= 0
                THEN Throw("Portfolio size too small to fund a single contract at this debit.")
                ELSE Num(maxContracts)

-----------------------------------------------------------------------------
(* core/spreads/bullCall.ts *)

DefaultContractSize == 100

\* the intrinsic value without the floor at zero
intrinsicPerShare_unfloored(longStrike, shortStrike, priceAtExpiry) ==
    Min(priceAtExpiry - longStrike, shortStrike - longStrike)

\* the intrinsic value without the cap at the strike width
intrinsicPerShare_uncapped(longStrike, shortStrike, priceAtExpiry) ==
    Max(0, priceAtExpiry - longStrike)

intrinsicPerShare(longStrike, shortStrike, priceAtExpiry) ==
    Max(0, Min(priceAtExpiry - longStrike, shortStrike - longStrike))

bullCallSpreadProfit(opts) ==
    LET contractSize == Default(opts.contractSize, Num(DefaultContractSize)) IN
    IF ~(IsFinite(opts.longStrike) /\ IsFinite(opts.shortStrike)
         /\ IsFinite(opts.priceAtExpiry) /\ IsFinite(opts.netDebitPerShare))
      THEN Throw("All numeric inputs must be finite numbers.")
    ELSE IF opts.longStrike.v >= opts.shortStrike.v
      THEN Throw("For a bull call spread, longStrike must be LESS than shortStrike.")
    ELSE IF opts.netDebitPerShare.v < 0
      THEN Throw("netDebitPerShare (debit) cannot be negative.")
    ELSE IF ~IsInteger(contractSize) \/ contractSize.v <= 0
      THEN Throw("contractSize must be a positive integer.")
    ELSE LET effectiveContracts ==
                 resolveContracts(opts.contracts, opts.portfolioSize,
                                  opts.netDebitPerShare, contractSize) IN
         IF effectiveContracts.t = "throw" THEN effectiveContracts
         ELSE LET profitPerShare ==
                      intrinsicPerShare(opts.longStrike.v, opts.shortStrike.v,
                                        opts.priceAtExpiry.v)
                      - opts.netDebitPerShare.v IN
              Num(profitPerShare * contractSize.v * effectiveContracts.v)

\* the maximum profit with the debit left out
bullCallSpreadMaxProfitPerContract_gross(opts) ==
    LET contractSize == Default(opts.contractSize, Num(DefaultContractSize)) IN
    IF ~(IsFinite(opts.longStrike) /\ IsFinite(opts.shortStrike)
         /\ IsFinite(opts.netDebitPerShare))
      THEN Throw("All numeric inputs must be finite numbers.")
    ELSE IF opts.longStrike.v >= opts.shortStrike.v
      THEN Throw("longStrike must be LESS than shortStrike.")
    ELSE IF opts.netDebitPerShare.v < 0
      THEN Throw("netDebitPerShare (debit) cannot be negative.")
    ELSE Times(Num(opts.shortStrike.v - opts.longStrike.v), contractSize)

bullCallSpreadMaxProfitPerContract(opts) ==
    LET contractSize == Default(opts.contractSize, Num(DefaultContractSize)) IN
    IF ~(IsFinite(opts.longStrike) /\ IsFinite(opts.shortStrike)
         /\ IsFinite(opts.netDebitPerShare))
      THEN Throw("All numeric inputs must be finite numbers.")
    ELSE IF opts.longStrike.v >= opts.shortStrike.v
      THEN Throw("longStrike must be LESS than shortStrike.")
    ELSE IF opts.netDebitPerShare.v < 0
      THEN Throw("netDebitPerShare (debit) cannot be negative.")
    ELSE Times(Num((opts.shortStrike.v - opts.longStrike.v) - opts.netDebitPerShare.v),
               contractSize)

bullCallSpreadMaxProfitStrike(opts) ==
    IF ~(IsFinite(opts.longStrike) /\ IsFinite(opts.shortStrike))
      THEN Throw("All numeric inputs must be finite numbers.")
    ELSE IF opts.longStrike.v >= opts.shortStrike.v
      THEN Throw("longStrike must be LESS than shortStrike.")
    ELSE opts.shortStrike

\* the maximum loss with the sign left out
bullCallSpreadMaxLossPerContract_unsigned(opts) ==
    LET contractSize == Default(opts.contractSize, Num(DefaultContractSize)) IN
    IF ~IsFinite(opts.netDebitPerShare) \/ opts.netDebitPerShare.v < 0
      THEN Throw("netDebitPerShare must be a non-negative finite number.")
    ELSE IF ~IsInteger(contractSize) \/ contractSize.v <= 0
      THEN Throw("contractSize must be a positive integer.")
    ELSE Num(opts.netDebitPerShare.v * contractSize.v)

bullCallSpreadMaxLossPerContract(opts) ==
    LET contractSize == Default(opts.contractSize, Num(DefaultContractSize)) IN
    IF ~IsFinite(opts.netDebitPerShare) \/ opts.netDebitPerShare.v < 0
      THEN Throw("netDebitPerShare must be a non-negative finite number.")
    ELSE IF ~IsInteger(contractSize) \/ contractSize.v <= 0
      THEN Throw("contractSize must be a positive integer.")
    ELSE Num(opts.netDebitPerShare.v * contractSize.v * (-1))

\* the breakeven with the debit subtracted instead of added
bullCallSpreadBreakeven_minus(opts) ==
    IF ~(IsFinite(opts.longStrike) /\ IsFinite(opts.netDebitPerShare))
      THEN Throw("All numeric inputs must be finite numbers.")
    ELSE IF opts.netDebitPerShare.v < 0
      THEN Throw("netDebitPerShare (debit) cannot be negative.")
    ELSE Num(opts.longStrike.v - opts.netDebitPerShare.v)

bullCallSpreadBreakeven(opts) ==
    IF ~(IsFinite(opts.longStrike) /\ IsFinite(opts.netDebitPerShare))
      THEN Throw("All numeric inputs must be finite numbers.")
    ELSE IF opts.netDebitPerShare.v < 0
      THEN Throw("netDebitPerShare (debit) cannot be negative.")
    ELSE Num(opts.longStrike.v + opts.netDebitPerShare.v)

-----------------------------------------------------------------------------
(* The payoff run: every payoff function applied to one argument record,   *)
(* in the order index.ts calls them (sizing, metrics, profit).             *)

MaxStrikeStep == 2
MaxPriceStep == 5
MaxDebit == 6
MaxContracts == 2
MaxContractSize == 1

StrikeValues == {100 + 5 * i : i \in 0..MaxStrikeStep}
PriceValues == {90 + 5 * i : i \in 0..MaxPriceStep} \cup {103}
DebitValues == (0..MaxDebit) \cup {-1}
ContractSizeValues == (0..MaxContractSize) \cup {100}
ContractsValues == 0..MaxContracts
PortfolioValues == {-100, 0, 100, portfolioSize}

PayoffArgs ==
    [longStrike : {Num(k) : k \in StrikeValues} \cup {NaN},
     shortStrike : {Num(k) : k \in StrikeValues} \cup {NaN},
     priceAtExpiry : {Num(s) : s \in PriceValues},
     netDebitPerShare : {Num(d) : d \in DebitValues} \cup {NaN},
     contractSize : {Num(c) : c \in ContractSizeValues} \cup {Undefined, NaN},
     contracts : {Num(c) : c \in ContractsValues} \cup {Undefined},
     portfolioSize : {Num(q) : q \in PortfolioValues} \cup {Undefined}]

NoOutputs ==
    [contracts |-> NotRun, breakeven |-> NotRun, maxProfitStrike |-> NotRun,
     maxProfit |-> NotRun, maxLoss |-> NotRun, profit |-> NotRun,
     profitAtBreakeven |-> NotRun]

\* index.ts: contractSize = toNum(...) ?? 100 before sizing
CallResolveContracts ==
    /\ ppc = "resolveContracts"
    /\ pOut' = [pOut EXCEPT !.contracts =
                   resolveContracts(pArgs.contracts, pArgs.portfolioSize,
                                    pArgs.netDebitPerShare,
                                    Default(pArgs.contractSize, Num(DefaultContractSize)))]
    /\ ppc' = "breakeven"
    /\ UNCHANGED pArgs

CallBreakeven ==
    /\ ppc = "breakeven"
    /\ pOut' = [pOut EXCEPT !.breakeven = bullCallSpreadBreakeven(pArgs)]
    /\ ppc' = "maxProfitStrike"
    /\ UNCHANGED pArgs

CallMaxProfitStrike ==
    /\ ppc = "maxProfitStrike"
    /\ pOut' = [pOut EXCEPT !.maxProfitStrike = bullCallSpreadMaxProfitStrike(pArgs)]
    /\ ppc' = "maxProfit"
    /\ UNCHANGED pArgs

CallMaxProfit ==
    /\ ppc = "maxProfit"
    /\ pOut' = [pOut EXCEPT !.maxProfit = bullCallSpreadMaxProfitPerContract(pArgs)]
    /\ ppc' = "maxLoss"
    /\ UNCHANGED pArgs

CallMaxLoss ==
    /\ ppc = "maxLoss"
    /\ pOut' = [pOut EXCEPT !.maxLoss = bullCallSpreadMaxLossPerContract(pArgs)]
    /\ ppc' = "profit"
    /\ UNCHANGED pArgs

CallProfit ==
    /\ ppc = "profit"
    /\ pOut' = [pOut EXCEPT !.profit = bullCallSpreadProfit(pArgs)]
    /\ ppc' = "profitAtBreakeven"
    /\ UNCHANGED pArgs

\* the profit function run at priceAtExpiry = the breakeven just computed
CallProfitAtBreakeven ==
    /\ ppc = "profitAtBreakeven"
    /\ pOut' = [pOut EXCEPT !.profitAtBreakeven =
                   IF pOut.breakeven.t = "throw" THEN NotRun
                   ELSE bullCallSpreadProfit(
                            [pArgs EXCEPT !.priceAtExpiry = pOut.breakeven])]
    /\ ppc' = "done"
    /\ UNCHANGED pArgs

PayoffNext ==
    \/ CallResolveContracts
    \/ CallBreakeven
    \/ CallMaxProfitStrike
    \/ CallMaxProfit
    \/ CallMaxLoss
    \/ CallProfit
    \/ CallProfitAtBreakeven

PayoffInit ==
    /\ ppc = "resolveContracts"
    /\ pArgs \in PayoffArgs
    /\ pOut = NoOutputs
    /\ fpc = "idle"
    /\ params = [symbol |-> <<>>, longStrike |-> Undefined, shortStrike |-> Undefined,
                 expiration |-> StrUndefined]
    /\ locals = NoLocals
    /\ quotesCall = IdleQuotes
    /\ chainCall = IdleChain
    /\ legs = NoLegs
    /\ outcome = Pending
    /\ requests = <<>>

SpecPayoff == PayoffInit /\ [][PayoffNext /\ UNCHANGED fetchVars]_vars

-----------------------------------------------------------------------------
(* Properties of the payoff functions (checked under SpecPayoff) *)

\* the arguments are in the domain of the spread formulas: longStrike <
\* shortStrike, a debit >= 0, an explicit positive integer contractSize and
\* an explicit positive integer number of contracts
ValidSpreadArgs ==
    /\ pArgs.longStrike.t = "num" /\ pArgs.shortStrike.t = "num"
    /\ pArgs.longStrike.v < pArgs.shortStrike.v
    /\ pArgs.netDebitPerShare.t = "num" /\ pArgs.netDebitPerShare.v >= 0
    /\ pArgs.contractSize.t = "num" /\ pArgs.contractSize.v > 0
    /\ pArgs.contracts.t = "num" /\ pArgs.contracts.v > 0

\* the payoff per share written out by region of the price at expiry
PerShareByRegion ==
    IF pArgs.priceAtExpiry.v <= pArgs.longStrike.v
      THEN 0 - pArgs.netDebitPerShare.v
    ELSE IF pArgs.priceAtExpiry.v >= pArgs.shortStrike.v
      THEN (pArgs.shortStrike.v - pArgs.longStrike.v) - pArgs.netDebitPerShare.v
    ELSE (pArgs.priceAtExpiry.v - pArgs.longStrike.v) - pArgs.netDebitPerShare.v

IsExample(s) ==
    /\ pArgs.longStrike = Num(100) /\ pArgs.shortStrike = Num(110)
    /\ pArgs.netDebitPerShare = Num(3) /\ pArgs.contractSize = Num(100)
    /\ pArgs.contracts = Num(1) /\ pArgs.priceAtExpiry = Num(s)

\* C8: for longStrike < shortStrike, debit >= 0, positive integer
\* contractSize and contracts, bullCallSpreadProfit returns
\* (max(0, min(price - long, short - long)) - debit) * contractSize * contracts;
\* 100/110, debit 3, size 100, 1 contract: -300 at 90 and 100, 0 at 103,
\* 200 at 105, 700 at 110 and 115.
C8_ProfitFormula ==
    (pOut.profit.t # "notrun" /\ ValidSpreadArgs) =>
        /\ pOut.profit =
             Num(PerShareByRegion * pArgs.contractSize.v * pArgs.contracts.v)
        /\ (IsExample(90) \/ IsExample(100)) => pOut.profit = Num(-300)
        /\ IsExample(103) => pOut.profit = Num(0)
        /\ IsExample(105) => pOut.profit = Num(200)
        /\ (IsExample(110) \/ IsExample(115)) => pOut.profit = Num(700)

C8_Witness ==
    /\ ppc = "done" /\ IsExample(115) /\ pOut.profit = Num(700)

\* C9 as claimed: profit at priceAtExpiry = breakeven is 0 for every
\* longStrike < shortStrike and every debit >= 0, debits above the strike
\* width included.
C9_ZeroAtBreakevenAnyDebit ==
    (ppc = "done" /\ ValidSpreadArgs) => pOut.profitAtBreakeven = Num(0)

\* C9 amended: profit at priceAtExpiry = breakeven is 0 for every
\* longStrike < shortStrike and every debit with 0 <= debit <= shortStrike -
\* longStrike; for a debit above the width it is (width - debit) *
\* contractSize * contracts, which is negative.
C9_ZeroAtBreakeven ==
    (ppc = "done" /\ ValidSpreadArgs) =>
        LET width == pArgs.shortStrike.v - pArgs.longStrike.v IN
        /\ pOut.breakeven.t = "num"
        /\ pArgs.netDebitPerShare.v <= width => pOut.profitAtBreakeven = Num(0)
        /\ pArgs.netDebitPerShare.v > width =>
               pOut.profitAtBreakeven =
                   Num((width - pArgs.netDebitPerShare.v)
                       * pArgs.contractSize.v * pArgs.contracts.v)

C9_Witness ==
    /\ ppc = "done" /\ ValidSpreadArgs
    /\ pArgs.netDebitPerShare.v > 0
    /\ pArgs.netDebitPerShare.v < pArgs.shortStrike.v - pArgs.longStrike.v
    /\ pOut.breakeven = Num(pArgs.longStrike.v + pArgs.netDebitPerShare.v)
    /\ pOut.profitAtBreakeven = Num(0)

\* C10: for positive contractSize and contracts and priceAtExpiry <=
\* longStrike, bullCallSpreadProfit = bullCallSpreadMaxLossPerContract * contracts.
C10_LossRegion ==
    (ppc = "done" /\ ValidSpreadArgs
        /\ pArgs.priceAtExpiry.v <= pArgs.longStrike.v) =>
        /\ pOut.profit.t = "num" /\ pOut.maxLoss.t = "num"
        /\ pOut.profit.v = pOut.maxLoss.v * pArgs.contracts.v

C10_Witness ==
    /\ ppc = "done" /\ ValidSpreadArgs
    /\ pArgs.priceAtExpiry.v < pArgs.longStrike.v
    /\ pArgs.netDebitPerShare.v > 0 /\ pArgs.contracts.v = 2
    /\ pOut.profit.v < 0
    /\ pOut.profit.v = pOut.maxLoss.v * 2

\* the contract size the payoff functions use: contractSize = 100 by default
EffectiveContractSize == Default(pArgs.contractSize, Num(DefaultContractSize))

\* C11: for every priceAtExpiry >= shortStrike, bullCallSpreadProfit equals
\* bullCallSpreadMaxProfitPerContract times the number of contracts, and
\* bullCallSpreadMaxProfitPerContract is
\* (shortStrike - longStrike - netDebitPerShare) * contractSize.
C11_MaxProfitRegion ==
    (ppc = "done" /\ pOut.profit.t = "num"
        /\ pArgs.priceAtExpiry.v >= pArgs.shortStrike.v) =>
        /\ pOut.maxProfit.t = "num" /\ pOut.contracts.t = "num"
        /\ pOut.profit.v = pOut.maxProfit.v * pOut.contracts.v
        /\ pOut.maxProfit.v =
               ((pArgs.shortStrike.v - pArgs.longStrike.v)
                   - pArgs.netDebitPerShare.v) * EffectiveContractSize.v

C11_Witness ==
    /\ ppc = "done" /\ ValidSpreadArgs
    /\ pArgs.priceAtExpiry.v > pArgs.shortStrike.v
    /\ pArgs.netDebitPerShare.v > 0 /\ pArgs.contracts.v = 2
    /\ pOut.maxProfit.v > 0
    /\ pOut.profit.v = pOut.maxProfit.v * 2

\* contractSize is a positive integer and the debit a finite number >= 0:
\* the arguments resolveContracts accepts before it sizes anything
ValidSizingArgs ==
    /\ EffectiveContractSize.t = "num" /\ EffectiveContractSize.v > 0
    /\ pArgs.netDebitPerShare.t = "num" /\ pArgs.netDebitPerShare.v >= 0

ExplicitContracts == pArgs.contracts.t = "num" /\ pArgs.contracts.v > 0

\* C12: with an explicit positive integer contracts, a valid contractSize and
\* a finite debit >= 0, resolveContracts returns contracts whatever the
\* portfolio size is (absent, zero, negative, too small), and returns it
\* again when the result is passed back as contracts.
C12_ExplicitContractsKept ==
    (pOut.contracts.t # "notrun" /\ ValidSizingArgs /\ ExplicitContracts) =>
        /\ pOut.contracts = pArgs.contracts
        /\ resolveContracts(pOut.contracts, pArgs.portfolioSize,
                            pArgs.netDebitPerShare, EffectiveContractSize)
               = pOut.contracts

C12_Witness ==
    /\ ppc = "done" /\ ValidSizingArgs
    /\ pArgs.contracts = Num(2) /\ pArgs.portfolioSize = Num(-100)
    /\ pOut.contracts = Num(2)

\* C13 as claimed: without an explicit count and without a portfolio size
\* resolveContracts returns 1, so bullCallSpreadProfit prices one contract.
C13_NoSizingInputsGiveOne ==
    (ppc = "done" /\ ValidSizingArgs
        /\ pArgs.contracts = Undefined /\ pArgs.portfolioSize = Undefined) =>
        /\ pOut.contracts = Num(1)
        /\ pOut.profit.t = "num" =>
               pOut.profit = Num(PerShareByRegion * EffectiveContractSize.v)

\* floor(portfolioSize / perContractCost) as JavaScript computes it: the
\* quotient by 0 of a positive number is Infinity, a non-finite number
FloorOfRatio(portfolio, perContractCost) ==
    IF perContractCost = 0 THEN NaN ELSE Num(portfolio \div perContractCost)

SizedFromPortfolio ==
    /\ pOut.contracts.t # "notrun" /\ ValidSizingArgs
    /\ pArgs.contracts = Undefined
    /\ pArgs.portfolioSize.t = "num" /\ pArgs.portfolioSize.v > 0

PerContractCost == pArgs.netDebitPerShare.v * EffectiveContractSize.v

\* C14 as claimed: without an explicit count and with a positive portfolio
\* size the result is floor(portfolioSize / (debit * contractSize)) when that
\* floor is at least 1, the portfolio-too-small error when it is 0 or less,
\* and never 0 or negative; a debit of 0 included, where the floor is
\* Infinity.
C14_FloorOfPortfolioAnyDebit ==
    SizedFromPortfolio =>
        /\ (FloorOfRatio(pArgs.portfolioSize.v, PerContractCost).t = "nan"
                \/ FloorOfRatio(pArgs.portfolioSize.v, PerContractCost).v >= 1) =>
               pOut.contracts = FloorOfRatio(pArgs.portfolioSize.v, PerContractCost)
        /\ (FloorOfRatio(pArgs.portfolioSize.v, PerContractCost).t = "num"
                /\ FloorOfRatio(pArgs.portfolioSize.v, PerContractCost).v <= 0) =>
               pOut.contracts =
                   Throw("Portfolio size too small to fund a single contract at this debit.")
        /\ pOut.contracts.t = "num" => pOut.contracts.v >= 1

\* C14 amended: for a per-contract cost debit * contractSize > 0 the result
\* is floor(portfolioSize / cost) when that floor is at least 1 and the
\* portfolio-too-small error when it is 0; for a cost of 0 the result is 1;
\* the result is never 0 or negative.
C14_FloorOfPortfolio ==
    SizedFromPortfolio =>
        /\ (PerContractCost > 0 /\ pArgs.portfolioSize.v \div PerContractCost >= 1) =>
               pOut.contracts = Num(pArgs.portfolioSize.v \div PerContractCost)
        /\ (PerContractCost > 0 /\ pArgs.portfolioSize.v \div PerContractCost <= 0) =>
               pOut.contracts =
                   Throw("Portfolio size too small to fund a single contract at this debit.")
        /\ PerContractCost = 0 => pOut.contracts = Num(1)
        /\ pOut.contracts.t = "num" => pOut.contracts.v >= 1

\* part_003 59-60: portfolio 100000, debit 3, contractSize 100 gives 333
C14_Witness ==
    /\ ppc = "done" /\ SizedFromPortfolio
    /\ pArgs.portfolioSize = Num(100000) /\ pArgs.netDebitPerShare = Num(3)
    /\ pArgs.contractSize = Num(100)
    /\ pOut.contracts = Num(333)

-----------------------------------------------------------------------------
(* The lookup followed by the payoff run on the fetched debit (index.ts)   *)

RawSymbolInputs == {<<>>, <<" ">>, <<" ", "a">>}
LongStrikeInputs == {NaN, Num(100)}
ShortStrikeInputs == {NaN, Num(100), Num(110)}
ExpirationInputs ==
    {StrUndefined, Str(<<>>), Str(<<" ">>), Str(<<"x">>), Str(Date1), Str(Date2Seconds),
     Str(<<"2", "0", "2", "4", "-", "1", "3", "-", "4", "5">>)}

FetchParams ==
    [symbol : RawSymbolInputs, longStrike : LongStrikeInputs,
     shortStrike : ShortStrikeInputs, expiration : ExpirationInputs]

NoArgs ==
    [longStrike |-> Undefined, shortStrike |-> Undefined, priceAtExpiry |-> Undefined,
     netDebitPerShare |-> Undefined, contractSize |-> Undefined,
     contracts |-> Undefined, portfolioSize |-> Undefined]

\* index.ts 155 and 172-178: the fetched debit becomes the debit of the run
UseFetchedDebit ==
    /\ fpc = "settled" /\ outcome.t = "result" /\ ppc = "idle"
    /\ \E explicitContracts \in {Undefined, Num(1)} :
          pArgs' = [longStrike |-> params.longStrike,
                    shortStrike |-> params.shortStrike,
                    priceAtExpiry |-> Num(105),
                    netDebitPerShare |-> Num(outcome.netDebitPerShare),
                    contractSize |-> Num(DefaultContractSize),
                    contracts |-> explicitContracts,
                    portfolioSize |-> Num(portfolioSize)]
    /\ ppc' = "resolveContracts"
    /\ UNCHANGED <<pOut, fetchVars>>

Init ==
    /\ fpc = "start"
    /\ params \in FetchParams
    /\ quotesCall = IdleQuotes
    /\ chainCall = IdleChain
    /\ locals = NoLocals
    /\ legs = NoLegs
    /\ outcome = Pending
    /\ requests = <<>>
    /\ ppc = "idle"
    /\ pArgs = NoArgs
    /\ pOut = NoOutputs

Next ==
    \/ FetchSpreadMidDebit
    \/ QuotesRequestFails
    \/ QuotesRequestSucceeds
    \/ ChainRequestFails
    \/ ChainRequestSucceeds
    \/ UseFetchedDebit
    \/ (PayoffNext /\ UNCHANGED fetchVars)

Spec == Init /\ [][Next]_vars

-----------------------------------------------------------------------------
(* Properties of the lookup (checked under Spec) *)

Requested(api) == {i \in 1..Len(requests) : requests[i].api = api}

\* the quotes delivered by the requests issued before request i
DeliveredBefore(i) ==
    UNION {requests[j].delivered : j \in {k \in Requested("quotes") : k < i}}

ExplicitExpiration == locals.normalizedExpiration.t = "str"

InvalidLookupInput ==
    \/ trim(params.symbol) = <<>>
    \/ ~IsFinite(params.longStrike)
    \/ ~IsFinite(params.shortStrike)

\* C1: called with a symbol that is empty after trimming, or with a strike
\* that is not a finite number, fetchSpreadMidDebit fails, and no request
\* has been issued when it fails.
C1_InvalidInputFailsBeforeAnyRequest ==
    (InvalidLookupInput /\ fpc # "start") =>
        /\ fpc = "settled"
        /\ outcome.t = "throw"
        /\ requests = <<>>

C1_Witness ==
    /\ params.symbol = <<" ">>
    /\ IsFinite(params.longStrike) /\ IsFinite(params.shortStrike)
    /\ params.expiration.t = "undefined"
    /\ fpc = "settled"
    /\ outcome.t = "throw"
    /\ outcome.err.msg = "Symbol is required for Alpaca lookup."
    /\ requests = <<>>

\* C2: an execution that has ended has failed or has returned
\* netDebitPerShare = longMid - shortMid, each mid being the mid of the quote
\* upstream holds for the contract of that leg, a contract at the strike
\* asked for, delivered by a request that succeeded.
C2_NetDebitFromOwnQuotes ==
    /\ fpc = "settled" => outcome.t \in {"throw", "result"}
    /\ outcome.t = "result" =>
          /\ outcome.netDebitPerShare = outcome.longMid - outcome.shortMid
          /\ legs.long.symbol \in MarketSymbols
          /\ legs.short.symbol \in MarketSymbols
          /\ legs.long.strike = params.longStrike.v
          /\ legs.short.strike = params.shortStrike.v
          /\ legs.long.quote.t = "quote"
          /\ legs.short.quote.t = "quote"
          /\ outcome.longMid = MarketMid(legs.long.symbol)
          /\ outcome.shortMid = MarketMid(legs.short.symbol)
          /\ \E i \in 1..Len(requests) : requests[i].ok

\* a result whose quotes both came from the follow-up lookup
C2_Witness ==
    /\ outcome.t = "result"
    /\ outcome.longMid = 7 /\ outcome.shortMid = 4 /\ outcome.netDebitPerShare = 3
    /\ legs.long.symbol = SymLong1 /\ legs.short.symbol = SymShort1
    /\ Requested("chain") # {}
    /\ requests[Len(requests)].api = "quotes"
    /\ requests[Len(requests)].symbols = <<SymLong1, SymShort1>>
    /\ requests[Len(requests)].delivered = {SymLong1, SymShort1}

\* C3: a call with an explicit expiration that succeeds, on the fast path
\* or through the chain, resolved two contracts of that expiration, and the
\* expiration returned is the Unix seconds of the requested normalized date.
C3_ExplicitExpirationKept ==
    (outcome.t = "result" /\ ExplicitExpiration) =>
        LET requested == locals.normalizedExpiration.s IN
        /\ legs.long.expiration = requested
        /\ legs.short.expiration = requested
        /\ MarketExpiration(legs.long.symbol) = requested
        /\ MarketExpiration(legs.short.symbol) = requested
        /\ outcome.expiration =
               DaysFromCivil(IsoYear(requested), IsoMonth(requested), IsoDay(requested))
                   * SecondsPerDay

\* the later expiration asked for in seconds and resolved through the chain
C3_Witness ==
    /\ outcome.t = "result"
    /\ params.expiration = Str(Date2Seconds)
    /\ locals.normalizedExpiration = Str(Date2)
    /\ Requested("chain") # {}
    /\ legs.long.symbol = SymLong2 /\ legs.short.symbol = SymShort2
    /\ outcome.expiration = 1729209600

\* C4: a chain request is issued only if no expiration was given or the
\* quote lookup for the two constructed symbols left one of them without a
\* quote; when it yields both, no chain request is issued.
C4_ChainOnlyWithoutFastQuotes ==
    \A i \in Requested("chain") :
        \/ ~ExplicitExpiration
        \/ ~({locals.longSymbol.s, locals.shortSymbol.s} \subseteq DeliveredBefore(i))

\* both quotes on the fast path, from two endpoints, and no chain request
C4_Witness ==
    /\ outcome.t = "result"
    /\ ExplicitExpiration
    /\ Len(requests) = 2
    /\ Requested("chain") = {}
    /\ requests[1].delivered = {SymLong1}
    /\ requests[2].delivered = {SymShort1}
    /\ locals.longSymbol.s = SymLong1 /\ locals.shortSymbol.s = SymShort1

AllRequestsFailed == requests # <<>> /\ \A i \in 1..Len(requests) : ~requests[i].ok

Variants(api) == {requests[i].variant : i \in Requested(api)}

\* C5: when every request of a lookup failed, every endpoint variant has
\* been tried and the lookup fails with the not-found error carrying the
\* symbol and the strikes, and the expiration when one was given.
C5_FailedRequestsEndInNotFound ==
    (fpc = "settled" /\ AllRequestsFailed) =>
        /\ Variants("chain") = 1..NumEndpoints
        /\ ExplicitExpiration => Variants("quotes") = 1..NumEndpoints
        /\ outcome.t = "throw"
        /\ outcome.err.msg = IF ExplicitExpiration
                                THEN "Unable to locate both strikes at expiration"
                                ELSE "Unable to locate both strikes"
        /\ outcome.err.symbol = <<"A">>
        /\ outcome.err.longStrike = params.longStrike.v
        /\ outcome.err.shortStrike = params.shortStrike.v
        /\ ExplicitExpiration => outcome.err.expiration = locals.normalizedExpiration.s

C5_Witness ==
    /\ fpc = "settled" /\ AllRequestsFailed
    /\ Len(requests) = 2 * NumEndpoints
    /\ params.expiration = Str(Date1)
    /\ outcome.err.msg = "Unable to locate both strikes at expiration"
    /\ outcome.err.expiration = Date1

LegsResolved == IsContract(legs.long) /\ IsContract(legs.short)

\* C6: when the pair is resolved and a leg still has no quote after the
\* follow-up lookup, the lookup fails with an error naming the long leg and
\* its symbol if the long quote is missing, else the short leg and its
\* symbol; no result is returned.
C6_MissingQuoteNamesLeg ==
    (fpc = "settled" /\ LegsResolved
        /\ (legs.long.quote.t # "quote" \/ legs.short.quote.t # "quote")) =>
        /\ outcome.t = "throw"
        /\ requests[Len(requests)].api = "quotes"
        /\ IF legs.long.quote.t # "quote"
             THEN outcome.err.leg = "long" /\ outcome.err.symbol = legs.long.symbol
             ELSE outcome.err.leg = "short" /\ outcome.err.symbol = legs.short.symbol

\* both quotes still missing after the follow-up: the long leg is named
C6_Witness ==
    /\ fpc = "settled" /\ LegsResolved
    /\ legs.long.quote.t # "quote" /\ legs.short.quote.t # "quote"
    /\ requests[Len(requests)].symbols = <<SymLong1, SymShort1>>
    /\ outcome.t = "throw"
    /\ outcome.err.leg = "long"
    /\ outcome.err.symbol = SymLong1

InvertedMarket ==
    /\ fpc = "settled" /\ LegsResolved
    /\ legs.long.quote.t = "quote" /\ legs.short.quote.t = "quote"
    /\ MarketMid(legs.short.symbol) > MarketMid(legs.long.symbol)

DebitOutputs == <<pOut.contracts, pOut.profit, pOut.breakeven, pOut.maxProfit, pOut.maxLoss>>

\* C7 as stated: on an inverted market the lookup returns the negative debit
\* and resolveContracts, the profit, the breakeven, the max profit and the
\* max loss run on that debit all produce results.
C7_NegativeDebitProducesResults ==
    /\ InvertedMarket =>
          outcome.t = "result" /\ outcome.netDebitPerShare < 0
    /\ (InvertedMarket /\ ppc = "done") =>
          \A i \in 1..Len(DebitOutputs) : Returned(DebitOutputs[i])

\* C7: on an inverted market the lookup returns the negative debit without
\* error, and each payoff function given that debit (resolveContracts, the
\* profit, the breakeven, the max profit, the max loss) throws an error.
C7_NegativeDebitReturnedThenRejected ==
    /\ InvertedMarket =>
          /\ outcome.t = "result"
          /\ outcome.netDebitPerShare
                 = MarketMid(legs.long.symbol) - MarketMid(legs.short.symbol)
          /\ outcome.netDebitPerShare < 0
    /\ (InvertedMarket /\ ppc = "done") =>
          /\ pArgs.netDebitPerShare = Num(outcome.netDebitPerShare)
          /\ \A i \in 1..Len(DebitOutputs) :
                 DebitOutputs[i].t = "throw"

C7_Witness ==
    /\ InvertedMarket /\ ppc = "done"
    /\ outcome.t = "result" /\ outcome.netDebitPerShare = -2
    /\ pArgs.longStrike = Num(100) /\ pArgs.shortStrike = Num(110)
    /\ pArgs.contracts = Num(1)
    /\ pOut.profit.t = "throw" /\ pOut.contracts.t = "throw"

-----------------------------------------------------------------------------
(* Numbers: IEEE 754 doubles, as far as range uses them.  A double is a    *)
(* sign and a magnitude counted in units of 2^-GridBits; the magnitude is  *)
(* a natural number of any size, a little-endian sequence of limbs below   *)
(* LimbBase without a leading zero limb.  Every double that is 0 or at     *)
(* least 2^(53 - GridBits - 1) in magnitude is a whole number of units.    *)

Pow2(n) == 2 ^ n

\* the significand of a double
SignificandBits == 53

\* the representation of the magnitudes: the limb width, the binary places
\* of the unit, and the extra places kept when a decimal string is parsed.
\* The results do not depend on them as long as every value in use is a
\* whole number of units and a limb product fits a machine integer.
Representation == [limbBits |-> 15, gridBits |-> 56, guardBits |-> 4]
LimbBits == Representation.limbBits
LimbBase == Pow2(LimbBits)
GridBits == Representation.gridBits
GuardBits == Representation.guardBits

RECURSIVE BigTrim(_)
BigTrim(a) ==
    IF a = <<>> \/ a[Len(a)] # 0 THEN a ELSE BigTrim(SubSeq(a, 1, Len(a) - 1))

RECURSIVE BigOfNat(_)
BigOfNat(n) == IF n = 0 THEN <<>> ELSE <<n % LimbBase>> \o BigOfNat(n \div LimbBase)

LimbOf(a) == IF a = <<>> THEN 0 ELSE a[1]
RestOf(a) == IF a = <<>> THEN <<>> ELSE Tail(a)

RECURSIVE BigAddCarry(_, _, _)
BigAddLimb(a, b, sum) ==
    <<sum % LimbBase>> \o BigAddCarry(RestOf(a), RestOf(b), sum \div LimbBase)

BigAddCarry(a, b, carry) ==
    IF a = <<>> /\ b = <<>> THEN BigOfNat(carry)
    ELSE BigAddLimb(a, b, LimbOf(a) + LimbOf(b) + carry)

BigAdd(a, b) == BigAddCarry(a, b, 0)

\* a - b for a >= b
RECURSIVE BigSubBorrow(_, _, _)
BigSubLimb(a, b, diff) ==
    <<diff % LimbBase>> \o BigSubBorrow(RestOf(a), RestOf(b), IF diff < 0 THEN 1 ELSE 0)

BigSubBorrow(a, b, borrow) ==
    IF a = <<>> THEN <<>>
    ELSE BigSubLimb(a, b, (LimbOf(a) - LimbOf(b)) - borrow)

BigSub(a, b) == BigTrim(BigSubBorrow(a, b, 0))

\* -1, 0 or 1 as a < b, a = b or a > b
RECURSIVE BigCmpSame(_, _)
BigCmpSame(a, b) ==
    IF a = <<>> THEN 0
    ELSE IF a[Len(a)] < b[Len(b)] THEN -1
    ELSE IF a[Len(a)] > b[Len(b)] THEN 1
    ELSE BigCmpSame(SubSeq(a, 1, Len(a) - 1), SubSeq(b, 1, Len(b) - 1))

BigCmp(a, b) ==
    IF Len(a) < Len(b) THEN -1
    ELSE IF Len(a) > Len(b) THEN 1
    ELSE BigCmpSame(a, b)

\* a * k for 0 < k <= LimbBase
RECURSIVE BigMulCarry(_, _, _)
BigMulLimb(a, k, product) ==
    <<product % LimbBase>> \o BigMulCarry(Tail(a), k, product \div LimbBase)

BigMulCarry(a, k, carry) ==
    IF a = <<>> THEN BigOfNat(carry)
    ELSE BigMulLimb(a, k, a[1] * k + carry)

BigMulSmall(a, k) == BigMulCarry(a, k, 0)

\* quotient q and remainder r of a by k, 0 < k <= LimbBase: the long
\* division from the top limb down
RECURSIVE BigDivTop(_, _, _)
BigDivPut(rest, digit) == [q |-> rest.q \o <<digit>>, r |-> rest.r]

BigDivLimb(front, k, cur) == BigDivPut(BigDivTop(front, k, cur % k), cur \div k)

BigDivTop(a, k, rem) ==
    IF a = <<>> THEN [q |-> <<>>, r |-> rem]
    ELSE BigDivLimb(SubSeq(a, 1, Len(a) - 1), k, rem * LimbBase + a[Len(a)])

BigDivTrim(res) == [q |-> BigTrim(res.q), r |-> res.r]

BigDivSmall(a, k) == BigDivTrim(BigDivTop(a, k, 0))

\* a * 2^bits
RECURSIVE ShiftLeft(_, _)
ShiftLeft(a, bits) ==
    IF bits = 0 THEN a
    ELSE ShiftLeft(BigMulSmall(a, Pow2(Min(bits, LimbBits - 1))),
                   bits - Min(bits, LimbBits - 1))

\* floor(a / k) for each k of divisors in turn, and whether anything was
\* cut off (sticky)
RECURSIVE DivideAll(_, _, _)
DivideNext(res, divisors, sticky) == DivideAll(res.q, divisors, sticky \/ res.r # 0)

DivideAll(a, divisors, sticky) ==
    IF divisors = <<>> THEN [q |-> a, sticky |-> sticky]
    ELSE DivideNext(BigDivSmall(a, Head(divisors)), Tail(divisors), sticky)

RECURSIVE Pow2Divisors(_)
Pow2Divisors(bits) ==
    IF bits = 0 THEN <<>>
    ELSE <<Pow2(Min(bits, LimbBits - 1))>> \o Pow2Divisors(bits - Min(bits, LimbBits - 1))

ShiftRightSticky(a, bits, sticky) == DivideAll(a, Pow2Divisors(bits), sticky)

SmallBitLength(n) == CHOOSE b \in 1..LimbBits : Pow2(b - 1) <= n /\ n < Pow2(b)

BitLength(a) ==
    IF a = <<>> THEN 0 ELSE LimbBits * (Len(a) - 1) + SmallBitLength(a[Len(a)])

IsOdd(a) == a # <<>> /\ a[1] % 2 = 1

\* round to nearest, ties to even, at 2^drop units: half is floor(a /
\* 2^(drop-1)) split into its quotient by 2 and the guard bit
RoundHalf(half, sticky, drop) ==
    ShiftLeft(IF half.r = 1 /\ (sticky \/ IsOdd(half.q))
                THEN BigAdd(half.q, <<1>>) ELSE half.q,
              drop)

RoundGuard(shifted, drop) == RoundHalf(BigDivSmall(shifted.q, 2), shifted.sticky, drop)

RoundAt(a, sticky, drop) == RoundGuard(ShiftRightSticky(a, drop - 1, sticky), drop)

\* the double nearest to a (+ a fraction when sticky): SignificandBits
\* significant bits are kept
RoundToDouble(a, sticky) ==
    IF BitLength(a) <= SignificandBits THEN a
    ELSE RoundAt(a, sticky, BitLength(a) - SignificandBits)

Double(neg, mag) == [t |-> "num", neg |-> neg /\ mag # <<>>, mag |-> mag, msg |-> ""]

\* x + y exactly: a sign and a magnitude
ExactDifference(x, y, cmp) ==
    IF cmp = 0 THEN [neg |-> FALSE, mag |-> <<>>]
    ELSE IF cmp > 0 THEN [neg |-> x.neg, mag |-> BigSub(x.mag, y.mag)]
    ELSE [neg |-> y.neg, mag |-> BigSub(y.mag, x.mag)]

ExactSum(x, y) ==
    IF x.neg = y.neg THEN [neg |-> x.neg, mag |-> BigAdd(x.mag, y.mag)]
    ELSE ExactDifference(x, y, BigCmp(x.mag, y.mag))

Rounded(exact) == Double(exact.neg, RoundToDouble(exact.mag, FALSE))

\* x + y of two doubles: the exact sum, correctly rounded
DoubleAdd(x, y) == Rounded(ExactSum(x, y))

\* x <= y
DoubleLeq(x, y) ==
    IF x.neg /\ ~y.neg THEN TRUE
    ELSE IF ~x.neg /\ y.neg THEN FALSE
    ELSE IF x.neg THEN BigCmp(x.mag, y.mag) >= 0
    ELSE BigCmp(x.mag, y.mag) <= 0

\* Number.prototype.toFixed(10): the decimal with 10 fraction digits
\* nearest to x, the larger in magnitude of two equally near; it is the
\* whole number n of 10^-10 with its sign
TenDigits == <<10000, 10000, 100>>

RECURSIVE MultiplyAll(_, _)
MultiplyAll(a, factors) ==
    IF factors = <<>> THEN a
    ELSE MultiplyAll(BigMulSmall(a, Head(factors)), Tail(factors))

FixedHalf(half) == IF half.r = 1 THEN BigAdd(half.q, <<1>>) ELSE half.q

FixedGuard(shifted) == FixedHalf(BigDivSmall(shifted.q, 2))

toFixed10(x) ==
    [neg |-> x.neg,
     n |-> FixedGuard(ShiftRightSticky(MultiplyAll(x.mag, TenDigits), GridBits - 1, FALSE))]

\* Number(s) of a decimal s with 10 fraction digits: the double nearest to
\* n / 10^10
ParsedUnits(rounded) == (BigDivSmall(rounded, Pow2(GuardBits))).q

ParsedDouble(quotient) == ParsedUnits(RoundToDouble(quotient.q, quotient.sticky))

NumberOfFixed10(s) ==
    Double(s.neg, ParsedDouble(DivideAll(ShiftLeft(s.n, GridBits + GuardBits),
                                         TenDigits, FALSE)))

\* a numeric literal with one fraction digit: tenths / 10
DoubleOfTenths(tenths) ==
    NumberOfFixed10([neg |-> tenths < 0,
                     n |-> MultiplyAll(BigOfNat(Abs(tenths)), <<10000, 10000, 10>>)])

-----------------------------------------------------------------------------
(* core/range: the price grid of the CLI, one action per loop iteration    *)

MaxRangeLen == 18

\* 2^53, the first double whose successor is 2 away
TwoTo53 == Double(FALSE, ShiftLeft(<<1>>, SignificandBits + GridBits))

RangeStarts == {DoubleOfTenths(0), DoubleOfTenths(3), DoubleOfTenths(5000), TwoTo53, NaN}
RangeEnds ==
    {DoubleOfTenths(0), DoubleOfTenths(3), DoubleOfTenths(16), DoubleOfTenths(9000),
     DoubleAdd(TwoTo53, DoubleOfTenths(20)), NaN}
RangeSteps ==
    {DoubleOfTenths(-1), DoubleOfTenths(0), DoubleOfTenths(1), DoubleOfTenths(10),
     DoubleOfTenths(500), NaN}

RangeArgs == [start : RangeStarts, end : RangeEnds, step : RangeSteps]

NoRange == [x |-> Undefined, out |-> <<>>, result |-> NotRun]

\* dir > 0 ? x <= end : x >= end
LoopCondition(x, end, step) ==
    IF step.neg THEN DoubleLeq(end, x) ELSE DoubleLeq(x, end)

\* range up to the loop: the checks of the arguments, let x = start
RangeEnter ==
    /\ ppc = "range"
    /\ pOut' =
         IF ~(IsFinite(pArgs.start) /\ IsFinite(pArgs.end) /\ IsFinite(pArgs.step))
           THEN [pOut EXCEPT !.result = Throw("range args must be finite numbers.")]
         ELSE IF pArgs.step.mag = <<>>
           THEN [pOut EXCEPT !.result = Throw("range step cannot be 0.")]
         ELSE [pOut EXCEPT !.x = pArgs.start]
    /\ ppc' = IF pOut'.result.t = "throw" THEN "done" ELSE "loop"
    /\ UNCHANGED pArgs

\* one iteration: out.push(Number(x.toFixed(10))); x += step
RangeIterate ==
    /\ ppc = "loop"
    /\ Len(pOut.out) < MaxRangeLen
    /\ LoopCondition(pOut.x, pArgs.end, pArgs.step)
    /\ pOut' = [pOut EXCEPT !.out = Append(@, NumberOfFixed10(toFixed10(pOut.x))),
                            !.x = DoubleAdd(@, pArgs.step)]
    /\ UNCHANGED <<ppc, pArgs>>

\* the loop condition fails: return out
RangeReturn ==
    /\ ppc = "loop"
    /\ ~LoopCondition(pOut.x, pArgs.end, pArgs.step)
    /\ pOut' = [pOut EXCEPT !.result = Arr(pOut.out)]
    /\ ppc' = "done"
    /\ UNCHANGED pArgs

RangeNext ==
    \/ RangeEnter
    \/ RangeIterate
    \/ RangeReturn

NoLookup ==
    /\ fpc = "idle"
    /\ params = [symbol |-> <<>>, longStrike |-> Undefined, shortStrike |-> Undefined,
                 expiration |-> StrUndefined]
    /\ locals = NoLocals
    /\ quotesCall = IdleQuotes
    /\ chainCall = IdleChain
    /\ legs = NoLegs
    /\ outcome = Pending
    /\ requests = <<>>

RangeInit ==
    /\ ppc = "range"
    /\ pArgs \in RangeArgs
    /\ pOut = NoRange
    /\ NoLookup

SpecRange == RangeInit /\ [][RangeNext /\ UNCHANGED fetchVars]_vars

-----------------------------------------------------------------------------
(* Properties of range (checked under SpecRange) *)

RangeArgsValid ==
    /\ IsFinite(pArgs.start) /\ IsFinite(pArgs.end) /\ IsFinite(pArgs.step)
    /\ pArgs.step.mag # <<>>

\* start + k * step in exact arithmetic
ExactTerm(k) ==
    IF k = 0 THEN [neg |-> pArgs.start.neg, mag |-> pArgs.start.mag]
    ELSE ExactSum(pArgs.start,
                  [neg |-> pArgs.step.neg, mag |-> BigMulSmall(pArgs.step.mag, k)])

\* the term lies between start and end, end included
TermInRange(k) == LoopCondition(ExactTerm(k), pArgs.end, pArgs.step)

IsRangeCall(startTenths, endTenths, stepTenths) ==
    /\ pArgs.start = DoubleOfTenths(startTenths)
    /\ pArgs.end = DoubleOfTenths(endTenths)
    /\ pArgs.step = DoubleOfTenths(stepTenths)

\* C15 as claimed: with a step other than 0 the list that range builds is
\* at every moment a prefix of start, start + step, ... (each term
\* rounded to 10 decimals) whose terms lie between start and end, so the
\* loop runs no longer than the sequence; the list it returns holds every
\* such term, end included when start + k * step = end; range(500, 900, 50)
\* is the 9 values 500, 550, ..., 900; a step of 0 fails.
C15_RangeIsInclusiveSequence ==
    /\ (RangeArgsValid /\ ppc # "range") =>
          \A k \in 1..Len(pOut.out) :
              /\ TermInRange(k - 1)
              /\ pOut.out[k] = NumberOfFixed10(toFixed10(ExactTerm(k - 1)))
    /\ (RangeArgsValid /\ ppc = "done") =>
          /\ pOut.result.t = "arr"
          /\ ~TermInRange(Len(pOut.out))
    /\ (IsRangeCall(5000, 9000, 500) /\ ppc = "done") =>
          pOut.result = Arr([k \in 1..9 |-> DoubleOfTenths(5000 + 500 * (k - 1))])
    /\ (IsFinite(pArgs.start) /\ IsFinite(pArgs.end) /\ IsFinite(pArgs.step)
          /\ pArgs.step.mag = <<>> /\ ppc # "range") =>
          pOut.result = Throw("range step cannot be 0.")

\* range(0, 1.6, 0.1) has returned
C15_Witness ==
    /\ ppc = "done" /\ IsRangeCall(0, 16, 1) /\ pOut.result.t = "arr"

-----------------------------------------------------------------------------
(* computeMidFromQuote applied to one quote, fields of every kind *)

MaxBidStep == 1

BidValues == {10 + 4 * i : i \in 0..MaxBidStep}
AskValues == {12 + 4 * i : i \in 0..MaxBidStep}

QuoteArgs ==
    [t : {"quote"},
     bid : {Num(b) : b \in BidValues} \cup {Undefined, NaN},
     ask : {Num(a) : a \in AskValues} \cup {Undefined, NaN},
     mid : {Num(8), Num(13), Undefined, NaN},
     last : {Num(9), Num(15), Undefined, NaN}]

CallComputeMid ==
    /\ ppc = "computeMidFromQuote"
    /\ pOut' = computeMidFromQuote(pArgs)
    /\ ppc' = "done"
    /\ UNCHANGED pArgs

MidInit ==
    /\ ppc = "computeMidFromQuote"
    /\ pArgs \in QuoteArgs
    /\ pOut = NotRun
    /\ NoLookup

SpecMid == MidInit /\ [][CallComputeMid /\ UNCHANGED fetchVars]_vars

Present(field) == field.t # "undefined"

\* the first field of the sequence that satisfies Test, or the error
FirstOf(selected) ==
    IF selected = <<>> THEN Throw("No usable quote data available.") ELSE Head(selected)

FirstField(fields, Test(_)) == FirstOf(SelectSeq(fields, Test))

IsQuote(bid, ask, mid, last) ==
    pArgs = [t |-> "quote", bid |-> bid, ask |-> ask, mid |-> mid, last |-> last]

-----------------------------------------------------------------------------
(* buildOccOptionSymbol applied to one underlying, expiration, strike and  *)
(* type; strikes are whole numbers                                         *)

OccUnderlyings ==
    {<<>>, <<" ">>, <<"a">>, <<" ", "a", " ">>, <<"t", "s", "l", "a">>}
OccExpirations ==
    {Date1, Date2, <<"2", "0", "2", "4", "-", "1", "3", "-", "4", "5">>, <<"x">>, <<>>}
OccStrikes == {NaN, Num(-1), Num(0), Num(100), Num(250), Num(99999), Num(100000)}
OccTypes == {"C", "P"}

OccArgs ==
    [underlying : OccUnderlyings, expiration : OccExpirations,
     strike : OccStrikes, type : OccTypes]

CallBuildOcc ==
    /\ ppc = "buildOccOptionSymbol"
    /\ pOut' = buildOccOptionSymbol(pArgs.underlying, pArgs.expiration,
                                    pArgs.strike, pArgs.type)
    /\ ppc' = "done"
    /\ UNCHANGED pArgs

OccInit ==
    /\ ppc = "buildOccOptionSymbol"
    /\ pArgs \in OccArgs
    /\ pOut = NotRun
    /\ NoLookup

SpecOcc == OccInit /\ [][CallBuildOcc /\ UNCHANGED fetchVars]_vars

\* the underlying has a character other than whitespace, the expiration is
\* a calendar date YYYY-MM-DD and the strike is finite
OccArgsValid ==
    /\ trim(pArgs.underlying) # <<>>
    /\ MatchesIsoDate(pArgs.expiration)
    /\ IsCalendarDate(IsoYear(pArgs.expiration), IsoMonth(pArgs.expiration),
                      IsoDay(pArgs.expiration))
    /\ IsFinite(pArgs.strike)

\* the 15 characters after the ticker
OccSuffix == SubSeq(pOut.s, Len(trim(pArgs.underlying)) + 1, Len(pOut.s))

\* the digits YYMMDD of a date YYYY-MM-DD
YearMonthDay(date) == <<date[3], date[4], date[6], date[7], date[9], date[10]>>

\* C17 as claimed: for a non-empty underlying, a parsable expiration and
\* any finite strike the symbol is the uppercased ticker followed by exactly
\* 15 characters: the 6 digits YYMMDD, the type character and exactly 8
\* decimal digits that read strike * 1000; in every other case the call
\* fails.
C17_FixedWidthSymbol ==
    ppc = "done" =>
        /\ OccArgsValid =>
             /\ pOut.t = "str"
             /\ SubSeq(pOut.s, 1, Len(trim(pArgs.underlying)))
                    = toUpperCase(trim(pArgs.underlying))
             /\ Len(OccSuffix) = 15
             /\ SubSeq(OccSuffix, 1, 6) = YearMonthDay(pArgs.expiration)
             /\ OccSuffix[7] = pArgs.type
             /\ IsDigits(SubSeq(OccSuffix, 8, 15))
             /\ DigitsToNat(SubSeq(OccSuffix, 8, 15)) = pArgs.strike.v * 1000
        /\ ~OccArgsValid => pOut.t = "throw"

\* ("tsla", 2024-09-20, 250, C) gives TSLA240920C00250000
C17_Witness ==
    /\ ppc = "done"
    /\ pArgs = [underlying |-> <<"t", "s", "l", "a">>, expiration |-> Date1,
                strike |-> Num(250), type |-> "C"]
    /\ pOut = Str(<<"T", "S", "L", "A", "2", "4", "0", "9", "2", "0", "C",
                    "0", "0", "2", "5", "0", "0", "0", "0">>)

-----------------------------------------------------------------------------
(* fetchLatestStockPrice and fetchLatestEquityQuote: one action per        *)
(* response to a request                                                   *)

\* a string as the key of a property
RECURSIVE PropertyKey(_)
PropertyKey(chars) == IF chars = <<>> THEN "" ELSE chars[1] \o PropertyKey(Tail(chars))

TradeAliases == <<"trade", "last_trade", "latest_trade", "t">>
DirectPriceAliases == <<"price", "p", "last", "last_price", "close">>
TradePriceAliases == <<"price", "p", "last", "last_price">>
TradeNodeAliases == <<"trades", "data", "results">>
EquityQuoteNodeAliases == <<"quotes", "data", "results">>

NestedTradePrice(trade) ==
    IF trade.t = "obj" THEN FirstFinite(trade.o, TradePriceAliases) ELSE Undefined

DirectOrTradePrice(obj, direct) ==
    IF direct.t # "undefined" THEN direct
    ELSE NestedTradePrice(Coalesce(Lookup(obj, TradeAliases)))

extractTradePrice(raw) ==
    IF raw.t # "obj" THEN Undefined
    ELSE DirectOrTradePrice(raw.o, FirstFinite(raw.o, DirectPriceAliases))

\* for (const item of root) { price = extractTradePrice(item); if found return }
RECURSIVE FirstTradePrice(_)
FirstTradePrice(items) ==
    IF items = <<>> THEN Undefined
    ELSE IF extractTradePrice(Head(items)).t # "undefined"
      THEN extractTradePrice(Head(items))
    ELSE FirstTradePrice(Tail(items))

\* root[normalized] ?? root
EntryOf(root, normalized) == Coalesce(<<Get(root.o, PropertyKey(normalized)), root>>)

TradePriceOfRoot(root, normalized) ==
    IF root.t = "arr" THEN FirstTradePrice(root.a)
    ELSE IF root.t = "obj" THEN extractTradePrice(EntryOf(root, normalized))
    ELSE Undefined

\* the price a trades payload yields, undefined when it yields none
TradePriceOfPayload(payload, normalized) ==
    IF payload.t # "obj" THEN Undefined
    ELSE TradePriceOfRoot(Coalesce(Lookup(payload.o, TradeNodeAliases) \o <<payload>>),
                          normalized)

QuoteOfRoot(root, normalized) ==
    IF root.t = "obj" THEN normalizeQuote(EntryOf(root, normalized)) ELSE NoQuote

\* the quote a stock quotes payload yields
EquityQuoteOfPayload(payload, normalized) ==
    IF payload.t # "obj" THEN NoQuote
    ELSE QuoteOfRoot(Coalesce(Lookup(payload.o, EquityQuoteNodeAliases) \o <<payload>>),
                     normalized)

\* upstream: what the trade and quote endpoints may answer about the
\* underlying A, each endpoint variant with prices of its own
StockKey == "A"
TradePrice(variant) == 150 + variant
EquityBid(variant) == 160 + 4 * variant
EquityAsk(variant) == 162 + 4 * variant

EmptyObject == Obj([k \in {} |-> Null])

TradePayloads(variant) ==
    {Null,
     EmptyObject,
     Obj([trades |-> Arr(<<>>)]),
     Obj([trades |-> Obj([B |-> Obj([p |-> Num(99)])])]),
     Obj([trades |-> Obj([A |-> Obj([p |-> Num(TradePrice(variant))])])]),
     Obj([trades |-> Arr(<<Obj([symbol |-> Str(<<"A">>)]),
                           Obj([price |-> Num(TradePrice(variant))])>>)]),
     Obj([trade |-> Obj([p |-> Num(TradePrice(variant))])])}

EquityQuotePayloads(variant) ==
    {Null,
     EmptyObject,
     Obj([quotes |-> Arr(<<Obj([ap |-> Num(EquityAsk(variant))])>>)]),
     Obj([quotes |-> Obj([A |-> Obj([ap |-> Num(EquityAsk(variant)),
                                     bp |-> Num(EquityBid(variant))])])]),
     Obj([quote |-> Obj([last |-> Num(EquityBid(variant))])])}

StockSymbolInputs == {<<"a">>, <<" ", "a">>, <<"A">>}

StockPending == [t |-> "pending", price |-> 0, msg |-> ""]
StockCall(caller, normalized, endpoint) ==
    [caller |-> caller, symbols |-> <<normalized>>, endpoint |-> endpoint,
     accumulated |-> <<>>]

\* a request as the log keeps it: the endpoint family and variant, whether
\* it succeeded, and the price or quote the caller found in the response
StockRequest(api, variant, ok, found) ==
    [api |-> api, variant |-> variant, ok |-> ok, found |-> found]

StockSettles(result) ==
    /\ fpc' = "settled"
    /\ outcome' = result
    /\ quotesCall' = IdleQuotes

\* the trade endpoint loop with a price found at the first variant ignored
AfterTradeVariant_keepsLooking(price) ==
    IF quotesCall.endpoint < NumEndpoints
      THEN /\ quotesCall' = [quotesCall EXCEPT !.endpoint = @ + 1]
           /\ UNCHANGED <<fpc, outcome>>
    ELSE IF price.t # "undefined"
      THEN StockSettles([StockPending EXCEPT !.t = "result", !.price = price.v])
    ELSE /\ fpc' = "equityQuotes"
         /\ quotesCall' = StockCall("fetchLatestEquityQuote", locals.symbol, 1)
         /\ UNCHANGED outcome

\* after one trade endpoint variant: return the price, or try the next
\* variant, or go on to fetchLatestEquityQuote
AfterTradeVariant(price) ==
    IF price.t # "undefined"
      THEN StockSettles([StockPending EXCEPT !.t = "result", !.price = price.v])
    ELSE IF quotesCall.endpoint < NumEndpoints
      THEN /\ quotesCall' = [quotesCall EXCEPT !.endpoint = @ + 1]
           /\ UNCHANGED <<fpc, outcome>>
    ELSE /\ fpc' = "equityQuotes"
         /\ quotesCall' = StockCall("fetchLatestEquityQuote", locals.symbol, 1)
         /\ UNCHANGED outcome

\* if (quote) return computeMidFromQuote(quote); throw ...
StockPriceFromQuote(mid) ==
    IF mid.t = "throw" THEN [StockPending EXCEPT !.t = "throw", !.msg = mid.msg]
    ELSE [StockPending EXCEPT !.t = "result", !.price = mid.v]

\* after one quote endpoint variant: the first quote found is returned to
\* fetchLatestStockPrice, which returns its mid or fails
AfterEquityQuoteVariant(quote) ==
    IF quote.t = "quote" THEN StockSettles(StockPriceFromQuote(computeMidFromQuote(quote)))
    ELSE IF quotesCall.endpoint < NumEndpoints
      THEN /\ quotesCall' = [quotesCall EXCEPT !.endpoint = @ + 1]
           /\ UNCHANGED <<fpc, outcome>>
    ELSE StockSettles([StockPending EXCEPT
                          !.t = "throw",
                          !.msg = "Unable to fetch latest stock price via Alpaca."])

TradeRequestFails ==
    /\ fpc = "trades"
    /\ requests' = Append(requests,
                          StockRequest("trades", quotesCall.endpoint, FALSE, Undefined))
    /\ AfterTradeVariant(Undefined)
    /\ UNCHANGED <<params, locals, chainCall, legs, payoffVars>>

TradeRequestSucceeds ==
    /\ fpc = "trades"
    /\ \E payload \in TradePayloads(quotesCall.endpoint) :
          /\ requests' = Append(requests,
                                StockRequest("trades", quotesCall.endpoint, TRUE,
                                             TradePriceOfPayload(payload, locals.symbol)))
          /\ AfterTradeVariant(TradePriceOfPayload(payload, locals.symbol))
    /\ UNCHANGED <<params, locals, chainCall, legs, payoffVars>>

EquityQuoteRequestFails ==
    /\ fpc = "equityQuotes"
    /\ requests' = Append(requests,
                          StockRequest("equityQuotes", quotesCall.endpoint, FALSE, NoQuote))
    /\ AfterEquityQuoteVariant(NoQuote)
    /\ UNCHANGED <<params, locals, chainCall, legs, payoffVars>>

EquityQuoteRequestSucceeds ==
    /\ fpc = "equityQuotes"
    /\ \E payload \in EquityQuotePayloads(quotesCall.endpoint) :
          /\ requests' = Append(requests,
                                StockRequest("equityQuotes", quotesCall.endpoint, TRUE,
                                             EquityQuoteOfPayload(payload, locals.symbol)))
          /\ AfterEquityQuoteVariant(EquityQuoteOfPayload(payload, locals.symbol))
    /\ UNCHANGED <<params, locals, chainCall, legs, payoffVars>>

StockNext ==
    \/ TradeRequestFails
    \/ TradeRequestSucceeds
    \/ EquityQuoteRequestFails
    \/ EquityQuoteRequestSucceeds

\* fetchLatestStockPrice(symbol) up to its first request
StockInit ==
    /\ fpc = "trades"
    /\ \E symbol \in StockSymbolInputs :
          /\ params = [symbol |-> symbol, longStrike |-> Undefined,
                       shortStrike |-> Undefined, expiration |-> StrUndefined]
          /\ locals = [NoLocals EXCEPT !.symbol = sanitizeOptionSymbol(symbol)]
          /\ quotesCall = StockCall("fetchLatestStockPrice",
                                    sanitizeOptionSymbol(symbol), 1)
    /\ chainCall = IdleChain
    /\ legs = NoLegs
    /\ outcome = StockPending
    /\ requests = <<>>
    /\ ppc = "idle"
    /\ pArgs = NoArgs
    /\ pOut = NoOutputs

SpecStock == StockInit /\ [][StockNext]_vars

-----------------------------------------------------------------------------
(* Properties of fetchLatestStockPrice (checked under SpecStock) *)

\* the positions of the log with a request to the given endpoint family
StockRequests(api) == {i \in 1..Len(requests) : requests[i].api = api}

\* the request found a trade price or a quote
Yielded(i) == requests[i].found.t \in {"num", "quote"}

\* C18: the trade endpoint variants are requested in order, one request
\* each, a failed request or one without a price being followed by the next
\* variant; the first trade price found is returned and nothing is
\* requested after it; the quote endpoints are requested only after both
\* trade variants yielded no price, in order, and the mid of the first quote
\* found is returned; the call fails only when no trade variant and no quote
\* variant yielded a price.
C18_TradesThenQuotes ==
    /\ \A i \in 1..Len(requests) :
          /\ requests[i].api = (IF i <= NumEndpoints THEN "trades" ELSE "equityQuotes")
          /\ requests[i].variant = (IF i <= NumEndpoints THEN i ELSE i - NumEndpoints)
          /\ Yielded(i) => (i = Len(requests) /\ outcome.t # "pending")
    /\ (fpc = "settled" /\ requests # <<>> /\ requests[Len(requests)].found.t = "num") =>
          outcome = [StockPending EXCEPT !.t = "result",
                                         !.price = requests[Len(requests)].found.v]
    /\ (fpc = "settled" /\ requests # <<>> /\ requests[Len(requests)].found.t = "quote") =>
          outcome = [StockPending EXCEPT
                        !.t = "result",
                        !.price = computeMidFromQuote(requests[Len(requests)].found).v]
    /\ outcome.t = "throw" =>
          /\ Len(requests) = 2 * NumEndpoints
          /\ \A i \in 1..Len(requests) : ~Yielded(i)
    /\ fpc = "settled" => outcome.t # "pending"

\* the first trade request failed, the second had no price, the first quote
\* request failed and the second delivered a quote, whose mid is returned
C18_Witness ==
    /\ fpc = "settled" /\ Len(requests) = 4
    /\ ~requests[1].ok /\ requests[2].ok /\ ~requests[3].ok
    /\ requests[4].found.t = "quote"
    /\ outcome.t = "result"
    /\ outcome.price = (EquityBid(2) + EquityAsk(2)) \div 2

-----------------------------------------------------------------------------
(* Properties of the chain pagination (checked under Spec) *)

\* the positions of the log with a chain request to the given variant
ChainRequestsTo(variant) == {i \in Requested("chain") : requests[i].variant = variant}

\* the page requests fetchContractsFromChain can still issue: the rest of the
\* pages of the current variant and all pages of the variants after it
RemainingChainRequests ==
    (NumEndpoints - chainCall.endpoint) * MaxPages + (MaxPages - chainCall.page)

PaginationBounded ==
    /\ \A variant \in 1..NumEndpoints : Cardinality(ChainRequestsTo(variant)) <= MaxPages
    /\ Cardinality(Requested("chain")) <= MaxPages * NumEndpoints
    /\ \A i \in Requested("chain") :
          /\ requests[i].page < MaxPages
          /\ (requests[i].ok /\ ~requests[i].more) =>
                \A j \in ChainRequestsTo(requests[i].variant) : j <= i
    /\ fpc = "chain" => (chainCall.page < MaxPages /\ RemainingChainRequests > 0)

\* every answered page request ends fetchContractsFromChain or leaves it
\* with fewer page requests to issue
PaginationAdvances ==
    (fpc = "chain" /\ requests' # requests) =>
        \/ fpc' # "chain"
        \/ RemainingChainRequests' < RemainingChainRequests

\* C19: fetchContractsFromChain terminates: each endpoint variant receives at
\* most MaxPages = 4 page requests, pages 0 to 3, also when every page names a
\* next page; a resolution makes at most 8 chain requests; no page of a
\* variant is requested after a page of it came back without a continuation
\* token; and every answered request strictly lowers the number of requests
\* that can still be issued, which is never negative.
C19_PaginationTerminates == []PaginationBounded /\ [][PaginationAdvances]_vars

\* both variants answered four pages that each named a next page, and the
\* lookup has ended after these 8 requests
C19_Witness ==
    /\ fpc = "settled"
    /\ Cardinality(Requested("chain")) = MaxPages * NumEndpoints
    /\ \A i \in Requested("chain") : requests[i].ok /\ requests[i].more
    /\ requests[Len(requests)].api = "chain"

FailedChainRequests == {i \in Requested("chain") : ~requests[i].ok}

\* after request i the resolver is at page 0 of the next variant
MovedToNextVariant(i) ==
    IF i < Len(requests)
      THEN /\ requests[i + 1].api = "chain"
           /\ requests[i + 1].variant = requests[i].variant + 1
           /\ requests[i + 1].page = 0
      ELSE /\ fpc = "chain"
           /\ chainCall.endpoint = requests[i].variant + 1
           /\ chainCall.page = 0

\* after request i the resolver has returned a match to fetchSpreadMidDebit,
\* which goes on to the follow-up quotes or to its result
ReturnedMatch(i) ==
    /\ LegsResolved
    /\ IF i < Len(requests) THEN requests[i + 1].api = "quotes" ELSE fpc = "settled"

-----------------------------------------------------------------------------
(* Properties of the endpoint variants of the chain (checked under Spec) *)

\* the request the step has just logged
LoggedRequest == requests'[Len(requests')]

\* the step answers a chain page request
ChainStep == fpc = "chain" /\ requests' # requests

\* the contracts of the current variant after a page with the given payload
CollectedWith(payload) ==
    IF GatheredFromPayload[payload].threw THEN chainCall.collected
    ELSE chainCall.collected \o GatheredFromPayload[payload].results

\* the collected contracts the step may have handed to pickBestMatch: those
\* of the pages before when the request failed, else those with the page of
\* a payload that agrees with the logged request
HandedToPickBestMatch ==
    IF ~LoggedRequest.ok THEN {chainCall.collected}
    ELSE {CollectedWith(payload) :
             payload \in {p \in ChainPayloads :
                             (NextPageToken(p).t = "str") = LoggedRequest.more}}

VariantResult(collected) ==
    pickBestMatch(collected, params.longStrike.v, params.shortStrike.v, ChainExpiration)

NotFoundMessages ==
    {"Unable to locate both strikes", "Unable to locate both strikes at expiration"}

\* the step requests a further page of the same variant
SameVariantContinues ==
    /\ fpc' = "chain"
    /\ chainCall'.endpoint = chainCall.endpoint
    /\ chainCall'.page = chainCall.page + 1
    /\ chainCall'.collected \in {CollectedWith(payload) : payload \in ChainPayloads}
    /\ UNCHANGED <<legs, outcome>>

\* the variant yielded no match and the next variant starts with nothing
MovesToNextVariant ==
    /\ fpc' = "chain"
    /\ chainCall.endpoint < NumEndpoints
    /\ chainCall'.endpoint = chainCall.endpoint + 1
    /\ chainCall'.page = 0
    /\ chainCall'.collected = <<>>
    /\ \E collected \in HandedToPickBestMatch : VariantResult(collected).t = "none"
    /\ UNCHANGED <<legs, outcome>>

IsReturnedMatch(match) ==
    /\ match.t = "match"
    /\ legs'.long.symbol = match.long.symbol
    /\ legs'.long.strike = match.long.strike
    /\ legs'.long.expiration = match.long.expiration
    /\ legs'.short.symbol = match.short.symbol
    /\ legs'.short.strike = match.short.strike
    /\ legs'.short.expiration = match.short.expiration
    /\ legs'.resolvedExpiration = Str(match.expiration)

\* the match of the variant's own pages is returned to fetchSpreadMidDebit
ReturnsVariantMatch ==
    /\ fpc' \in {"quotes", "settled"}
    /\ \E collected \in HandedToPickBestMatch : IsReturnedMatch(VariantResult(collected))

\* the last variant yielded no match: absent is returned, and the caller
\* reports that the strikes were not found
ReturnsAbsent ==
    /\ chainCall.endpoint = NumEndpoints
    /\ \E collected \in HandedToPickBestMatch : VariantResult(collected).t = "none"
    /\ fpc' = "settled"
    /\ outcome'.t = "throw" /\ outcome'.err.msg \in NotFoundMessages
    /\ UNCHANGED legs

\* pickBestMatch raised on the variant's contracts: the error leaves
\* fetchContractsFromChain
VariantRaises ==
    /\ \E collected \in HandedToPickBestMatch : VariantResult(collected).t = "throw"
    /\ fpc' = "settled"
    /\ outcome'.t = "throw" /\ outcome'.err.msg \notin NotFoundMessages
    /\ UNCHANGED legs

VariantsInOrder ==
    /\ \A i, j \in Requested("chain") : i < j => requests[i].variant <= requests[j].variant
    /\ \A i \in Requested("chain") :
          (\A j \in Requested("chain") : i <= j) =>
              requests[i].variant = 1 /\ requests[i].page = 0
    /\ (fpc = "chain" /\ chainCall.page = 0) => chainCall.collected = <<>>
    /\ (outcome.t = "throw" /\ outcome.err.msg \in NotFoundMessages) =>
          /\ ChainRequestsTo(NumEndpoints) # {}
          /\ requests[Len(requests)].api = "chain"
          /\ requests[Len(requests)].variant = NumEndpoints

-----------------------------------------------------------------------------
(* pickBestMatch applied to a list of the contracts                        *)
(* gatherContractsFromResponse returns for the upstream chain, with and    *)
(* without an explicit expiration                                          *)

MaxListed == 4

\* the contracts gathered from a page listing every contract of the chain
\* and one whose expiration is not a date
ContractPool ==
    gatherContractsFromResponse(
        Arr(<<Quoted(SymLong1), Quoted(SymShort1), Quoted(SymLong2), Quoted(SymShort2),
              Misdated(SymLong1, ToBeDecided)>>)).results

ContractLists ==
    UNION {[1..n -> {ContractPool[i] : i \in 1..Len(ContractPool)}] : n \in 0..MaxListed}

MatchArgs ==
    [contracts : ContractLists, longStrike : {100}, shortStrike : {100, 110},
     explicitExpiration : {StrUndefined, Str(Date1), Str(Date2)}]

CallPickBestMatch ==
    /\ ppc = "pickBestMatch"
    /\ pOut' = pickBestMatch(pArgs.contracts, pArgs.longStrike, pArgs.shortStrike,
                             pArgs.explicitExpiration)
    /\ ppc' = "done"
    /\ UNCHANGED pArgs

MatchInit ==
    /\ ppc = "pickBestMatch"
    /\ pArgs \in MatchArgs
    /\ pOut = NotRun
    /\ NoLookup

SpecMatch == MatchInit /\ [][CallPickBestMatch /\ UNCHANGED fetchVars]_vars

Listed == {pArgs.contracts[i] : i \in 1..Len(pArgs.contracts)}

AtLong(contract) == approxEqual(contract.strike, pArgs.longStrike)
AtShort(contract) == approxEqual(contract.strike, pArgs.shortStrike)

\* the expirations with a contract at each strike
ExpirationsWithBoth(contracts) ==
    {long.expiration : long \in {c \in contracts : AtLong(c) /\
        \E short \in contracts : AtShort(short) /\ short.expiration = c.expiration}}

\* the match is a pair of listed contracts of one expiration at the two
\* strikes, and no expiration among the given ones is earlier
IsEarliestPair(match, expirations) ==
    /\ match.long \in Listed /\ match.short \in Listed
    /\ match.long.expiration = match.expiration
    /\ match.short.expiration = match.expiration
    /\ AtLong(match.long) /\ AtShort(match.short)
    /\ match.expiration \in expirations
    /\ \A e \in expirations :
          DateParseSeconds(match.expiration) <= DateParseSeconds(e)

\* C22 as claimed: a match is returned exactly when some expiration has a
\* contract at longStrike and a contract at shortStrike; its legs are of the
\* match's expiration and at the two strikes, and its expiration is the
\* earliest of the expirations that have both strikes.
C22_EarliestExpirationWithBoth ==
    ppc = "done" =>
        /\ pOut.t = "match" <=> ExpirationsWithBoth(Listed) # {}
        /\ pOut.t = "match" => IsEarliestPair(pOut, ExpirationsWithBoth(Listed))

\* the contract passes the filter of line 123
Eligible(contract) ==
    \/ pArgs.explicitExpiration.t # "str"
    \/ normalizeExpirationInput(contract.expiration) = pArgs.explicitExpiration

\* line 123 raises on a contract: an explicit expiration is given and the
\* contract's expiration cannot be interpreted
Uninterpretable(contract) ==
    /\ pArgs.explicitExpiration.t = "str"
    /\ normalizeExpirationInput(contract.expiration).t = "throw"

\* the expirations with an eligible contract at longStrike and an eligible
\* contract at shortStrike that is not at longStrike
ExpirationsWithPair(contracts) ==
    {long.expiration : long \in {c \in contracts : AtLong(c) /\
        \E short \in contracts :
            AtShort(short) /\ ~AtLong(short) /\ short.expiration = c.expiration}}

\* C22 amended: with an explicit expiration only the contracts of that
\* expiration count, and pickBestMatch raises when the expiration of a listed
\* contract cannot be interpreted; a contract within epsilon of longStrike
\* counts as the long leg only.  Otherwise as claimed.
C22_EarliestEligibleExpiration ==
    ppc = "done" =>
        /\ pOut.t = "throw" <=> \E c \in Listed : Uninterpretable(c)
        /\ pOut.t = "match" <=>
               /\ ~\E c \in Listed : Uninterpretable(c)
               /\ ExpirationsWithPair({c \in Listed : Eligible(c)}) # {}
        /\ pOut.t = "match" =>
               /\ IsEarliestPair(pOut, ExpirationsWithPair({c \in Listed : Eligible(c)}))
               /\ Eligible(pOut.long) /\ Eligible(pOut.short)

\* both strikes are listed at the later expiration first and at the earlier
\* one after it, and the match is the earlier expiration
C22_Witness ==
    /\ ppc = "done"
    /\ Len(pArgs.contracts) = 4
    /\ pArgs.contracts[1].expiration = Date2 /\ pArgs.contracts[2].expiration = Date2
    /\ pArgs.contracts[1].strike = 110 /\ pArgs.contracts[2].strike = 100
    /\ pArgs.explicitExpiration.t # "str"
    /\ pArgs.shortStrike = 110
    /\ pOut.t = "match" /\ pOut.expiration = Date1
    /\ pOut.long.symbol = SymLong1 /\ pOut.short.symbol = SymShort1

-----------------------------------------------------------------------------
(* Properties of the quote completion after a chain match (checked under   *)
(* Spec)                                                                   *)

HasQuote(contract) == contract.quote.t = "quote"

\* the symbols of the given legs that lack a quote, the long leg first
SymbolsLackingQuote(resolved) ==
    (IF HasQuote(resolved.long) THEN <<>> ELSE <<resolved.long.symbol>>)
    \o (IF HasQuote(resolved.short) THEN <<>> ELSE <<resolved.short.symbol>>)

\* the step returns a chain match to fetchSpreadMidDebit
ChainMatchReturned == ChainStep /\ fpc' \in {"quotes", "settled"} /\ IsContract(legs'.long)

\* the step ends the follow-up quote lookup
FollowUpReturned == fpc = "quotes" /\ quotesCall.caller = "followup" /\ fpc' # "quotes"

SameContract(a, b) ==
    a.symbol = b.symbol /\ a.strike = b.strike /\ a.expiration = b.expiration

\* the quote requests issued after the last chain request
FollowUpRequests ==
    {i \in Requested("quotes") : \E j \in Requested("chain") : j < i}

\* one follow-up lookup at most: its requests go to different endpoint
\* variants in order and ask for the same symbols, and nothing is requested
\* after it
OneFollowUpLookup ==
    /\ Cardinality(FollowUpRequests) <= NumEndpoints
    /\ \A i, j \in FollowUpRequests :
          /\ requests[i].symbols = requests[j].symbols
          /\ i < j => requests[i].variant < requests[j].variant
    /\ \A i \in FollowUpRequests : \A j \in Requested("chain") : j < i

\* lines 278-282 as a step
FollowUpAsksForMissing ==
    IF SymbolsLackingQuote(legs') # <<>>
      THEN /\ fpc' = "quotes"
           /\ quotesCall'.caller = "followup"
           /\ quotesCall'.endpoint = 1
           /\ quotesCall'.symbols = SymbolsLackingQuote(legs')
      ELSE fpc' = "settled"

\* lines 283-284 as a step
FollowUpKeepsLegs ==
    /\ fpc' = "settled"
    /\ SameContract(legs'.long, legs.long)
    /\ SameContract(legs'.short, legs.short)
    /\ HasQuote(legs.long) => legs'.long.quote = legs.long.quote
    /\ HasQuote(legs.short) => legs'.short.quote = legs.short.quote
    /\ requests'[Len(requests')].symbols = SymbolsLackingQuote(legs)
    /\ \A i \in FollowUpRequests : requests[i].symbols = SymbolsLackingQuote(legs)

\* C23: a chain match with a leg lacking a quote is kept and followed by one
\* quote lookup for exactly the symbols of the legs lacking a quote; a match
\* with both quotes is followed by no quote lookup; when the follow-up
\* returns, the legs are the same contracts, a leg that had a quote has the
\* same quote, and the lookup ends.
C23_FollowUpForMissingQuotes ==
    /\ []OneFollowUpLookup
    /\ [][(ChainMatchReturned => FollowUpAsksForMissing)
           /\ (FollowUpReturned => FollowUpKeepsLegs)]_vars

\* the chain gave the long leg with a quote and the short leg without one;
\* the follow-up asked for the short leg alone and the result uses both
C23_Witness ==
    /\ fpc = "settled" /\ outcome.t = "result"
    /\ Cardinality(FollowUpRequests) = 1
    /\ \A i \in FollowUpRequests : requests[i].symbols = <<SymShort1>>
    /\ legs.long.symbol = SymLong1 /\ legs.short.symbol = SymShort1
    /\ outcome.longMid = MarketMid(SymLong1)
    /\ outcome.shortMid = MarketMid(SymShort1)

-----------------------------------------------------------------------------
(* extractQuoteFields, normalizeQuote and computeMidFromQuote applied to   *)
(* one raw record: up to MaxFields price aliases with values of every      *)
(* kind, or quote containers of every kind next to a bid                   *)

MaxFields == 2

PriceAliases ==
    {AskAliases[i] : i \in 1..Len(AskAliases)} \cup {BidAliases[i] : i \in 1..Len(BidAliases)}
    \cup {LastAliases[i] : i \in 1..Len(LastAliases)}
    \cup {MidAliases[i] : i \in 1..Len(MidAliases)}

FieldValues == {Num(6), Str(<<" ", "7">>), Str(<<"x">>), Str(<<" ">>), Null}

RawFields ==
    UNION {[keys -> FieldValues] :
              keys \in {K \in SUBSET PriceAliases : Cardinality(K) <= MaxFields}}

ContainerKeys == {QuoteContainers[i] : i \in 1..Len(QuoteContainers)}

\* the position of a container key in QuoteContainers
ContainerRank(key) == CHOOSE i \in 1..Len(QuoteContainers) : QuoteContainers[i] = key

\* a container may hold null, a string, an object without a price, or an
\* object with a bid that tells the containers apart
ContainerValues(key) ==
    {Null, Str(<<"x">>), Obj([k \in {} |-> Null]), Obj([bp |-> Num(ContainerRank(key))])}

RawContainers ==
    UNION {{raw \in [keys -> UNION {ContainerValues(k) : k \in ContainerKeys}] :
               \A k \in keys : raw[k] \in ContainerValues(k)} :
           keys \in SUBSET ContainerKeys}

RawQuotes ==
    RawFields
    \cup {raw @@ direct : raw \in RawContainers,
                          direct \in {[k \in {} |-> Null], [bid |-> Str(<<"x">>)],
                                      [bid |-> Num(6)]}}

MidOf(quote) == IF quote.t = "quote" THEN computeMidFromQuote(quote) ELSE NotRun

CallNormalizeQuote ==
    /\ ppc = "normalizeQuote"
    /\ pOut' = [direct |-> extractQuoteFields(pArgs),
                quote |-> normalizeQuote(Obj(pArgs)),
                mid |-> MidOf(normalizeQuote(Obj(pArgs)))]
    /\ ppc' = "done"
    /\ UNCHANGED pArgs

QuoteInit ==
    /\ ppc = "normalizeQuote"
    /\ pArgs \in RawQuotes
    /\ pOut = [direct |-> NoQuote, quote |-> NoQuote, mid |-> NotRun]
    /\ NoLookup

SpecQuote == QuoteInit /\ [][CallNormalizeQuote /\ UNCHANGED fetchVars]_vars

\* the container holds an object with a resolvable price field
YieldsPrice(raw, key) ==
    /\ key \in DOMAIN raw
    /\ raw[key].t = "obj"
    /\ extractQuoteFields(raw[key].o).t = "quote"

\* C24 as claimed: the direct quote when the raw object has a price field;
\* failing that, a quote whenever some container holds an object with a
\* price field; absent only when neither yields a price.
C24_QuoteFromAnyContainer ==
    ppc = "done" =>
        /\ pOut.direct.t = "quote" => pOut.quote = pOut.direct
        /\ (pOut.direct.t # "quote" /\ \E k \in ContainerKeys : YieldsPrice(pArgs, k)) =>
               pOut.quote.t = "quote"
        /\ pOut.quote.t # "quote" =>
               /\ pOut.direct.t # "quote"
               /\ ~\E k \in ContainerKeys : YieldsPrice(pArgs, k)

\* the container keys whose value is neither null nor missing
PresentContainers(raw) ==
    SelectSeq(QuoteContainers, LAMBDA k : k \in DOMAIN raw /\ raw[k].t # "null")

\* C24 amended: the direct quote when the raw object has a price field;
\* failing that, only the first container key, in the order quote, quotes,
\* last_quote, latestQuote, latest_quote, whose value is neither null nor
\* missing is looked at: the quote extracted from it when it is an object
\* with a price field, absent otherwise and when there is no such key.
C24_QuoteFromFirstContainer ==
    ppc = "done" =>
        /\ pOut.direct.t = "quote" => pOut.quote = pOut.direct
        /\ (pOut.direct.t # "quote" /\ PresentContainers(pArgs) = <<>>) =>
               pOut.quote = NoQuote
        /\ (pOut.direct.t # "quote" /\ PresentContainers(pArgs) # <<>>) =>
               pOut.quote =
                   IF YieldsPrice(pArgs, Head(PresentContainers(pArgs)))
                     THEN extractQuoteFields(pArgs[Head(PresentContainers(pArgs))].o)
                     ELSE NoQuote

\* no direct price, quote is null, and the quote comes from last_quote,
\* the first container that is present
C24_Witness ==
    /\ ppc = "done"
    /\ DOMAIN pArgs = {"bid", "quote", "last_quote", "latest_quote"}
    /\ pArgs["bid"] = Str(<<"x">>)
    /\ pArgs["quote"] = Null
    /\ YieldsPrice(pArgs, "last_quote") /\ YieldsPrice(pArgs, "latest_quote")
    /\ pOut.quote.t = "quote" /\ pOut.quote.bid = Num(3)

\* the alias holds a finite number or a numeric string
Resolves(raw, key) ==
    /\ key \in DOMAIN raw
    /\ \/ raw[key].t = "num"
       \/ raw[key].t = "str" /\ IsDigits(trim(raw[key].s))

NumericValue(value) ==
    IF value.t = "num" THEN value ELSE Num(DigitsToNat(trim(value.s)))

\* the value of the first alias, in the order given, that resolves
FirstResolving(raw, aliases) ==
    IF \E i \in 1..Len(aliases) : Resolves(raw, aliases[i])
      THEN NumericValue(raw[aliases[CHOOSE i \in 1..Len(aliases) :
                                       /\ Resolves(raw, aliases[i])
                                       /\ \A j \in 1..(i - 1) : ~Resolves(raw, aliases[j])]])
      ELSE Undefined

HasFiniteField(quote) ==
    IsFinite(quote.ask) \/ IsFinite(quote.bid) \/ IsFinite(quote.last) \/ IsFinite(quote.mid)

\* C25: each of ask, bid, last and mid is the value of the first alias of
\* its list that holds a finite number or a numeric string; the result is
\* absent exactly when none of the four resolves; a quote returned by
\* extractQuoteFields or normalizeQuote has a finite field, and
\* computeMidFromQuote gives a finite mid for it.
C25_FirstResolvingAlias ==
    ppc = "done" =>
        /\ pOut.direct.ask = FirstResolving(pArgs, AskAliases)
        /\ pOut.direct.bid = FirstResolving(pArgs, BidAliases)
        /\ pOut.direct.last = FirstResolving(pArgs, LastAliases)
        /\ pOut.direct.mid = FirstResolving(pArgs, MidAliases)
        /\ pOut.direct.t = "undefined" <=>
               ~\E k \in PriceAliases : Resolves(pArgs, k)
        /\ pOut.direct.t = "quote" =>
               HasFiniteField(pOut.direct) /\ IsFinite(computeMidFromQuote(pOut.direct))
        /\ pOut.quote.t = "quote" => HasFiniteField(pOut.quote) /\ IsFinite(pOut.mid)

\* ask_price holds text and ask holds a number: the ask is the number
C25_Witness ==
    /\ ppc = "done"
    /\ DOMAIN pArgs = {"ask_price", "ask"}
    /\ pArgs["ask_price"] = Str(<<"x">>) /\ pArgs["ask"] = Str(<<" ", "7">>)
    /\ pOut.direct.ask = Num(7) /\ pOut.mid = Num(7)

-----------------------------------------------------------------------------
(* Properties of the contracts collected for a variant (checked under Spec) *)

\* C26: the contracts collected for the endpoint variant being paginated
\* hold no two entries with the same symbol, expiration and strike.
C26_CollectedWithoutDuplicates ==
    \A i, j \in 1..Len(chainCall.collected) :
        i < j => ~SameContract(chainCall.collected[i], chainCall.collected[j])

\* two pages of variant 1 listed the same contract, and it is collected twice
C26_Witness ==
    /\ fpc = "chain" /\ chainCall.endpoint = 1 /\ chainCall.page = 2
    /\ Len(chainCall.collected) = 2
    /\ chainCall.collected[1] = chainCall.collected[2]
    /\ chainCall.collected[1].symbol = SymLong1

-----------------------------------------------------------------------------
(* gatherContractsFromResponse applied to one page of up to MaxRecords     *)
(* records: calls and puts typed by field and by symbol, and records that  *)
(* cannot be interpreted; pickBestMatch applied to what it returns         *)

MaxRecords == 3

SymPut1 == <<"A", "2", "4", "0", "9", "2", "0", "P", "0", "0", "1", "0", "0", "0", "0", "0">>
SymPutByField == <<"B", "2", "4", "0", "9", "2", "0", "C", "0", "0", "1", "0", "0", "0", "0", "0">>
SymCallByField == <<"B", "2", "4", "0", "9", "2", "0", "P", "0", "0", "1", "1", "0", "0", "0", "0">>
SymUndated == <<"A", "C", "0", "0", "1", "0", "0", "0", "0", "0">>

\* a put at the strike and expiration of the long call, by its symbol
PutBySymbol ==
    Obj([symbol |-> Str(SymPut1), strike_price |-> Num(100),
         expiration_date |-> Str(Date1), bid_price |-> Num(6)])

\* a put by its type field, the symbol carrying a C
PutByField ==
    Obj([symbol |-> Str(SymPutByField), strike_price |-> Num(100),
         expiration_date |-> Str(Date1), type |-> Str(<<" ", "P", "U", "T">>),
         bid_price |-> Num(5)])

\* a call by its type field, the symbol carrying a P
CallByField ==
    Obj([symbol |-> Str(SymCallByField), strike_price |-> Num(110),
         expiration_date |-> Str(Date1), option_type |-> Str(<<"c">>),
         bid_price |-> Num(4)])

\* no type field and a symbol too short to carry a type character
Untyped ==
    Obj([symbol |-> Str(<<"Y">>), strike_price |-> Num(100),
         expiration_date |-> Str(Date1), bid_price |-> Num(1)])

Unnamed ==
    Obj([symbol |-> Null, strike_price |-> Num(100), expiration_date |-> Str(Date1),
         bid_price |-> Num(1)])

Unstruck ==
    Obj([symbol |-> Str(SymLong2), strike_price |-> Str(<<"x">>),
         expiration_date |-> Str(Date2), bid_price |-> Num(1)])

\* a blank expiration and a symbol without date digits
Undated ==
    Obj([symbol |-> Str(SymUndated), strike_price |-> Num(100),
         expiration_date |-> Str(<<" ">>), bid_price |-> Num(1)])

RecordPool ==
    {Quoted(SymLong1), Quoted(SymShort1), PutBySymbol, PutByField, CallByField,
     Untyped, Unnamed, Unstruck, Undated,
     Misdated(SymLong1, Soon), Misdated(SymLong1, ToBeDecided)}

GatherArgs ==
    [page : UNION {[1..n -> RecordPool] : n \in 0..MaxRecords},
     explicitExpiration : {StrUndefined, Str(Date1)}]

\* what the caller receives: the list, or the error raised
ReturnedList(gathered) ==
    IF gathered.threw THEN [t |-> "throw", list |-> <<>>]
    ELSE [t |-> "list", list |-> gathered.results]

CallGatherContracts ==
    /\ ppc = "gatherContractsFromResponse"
    /\ pOut' = [pOut EXCEPT
                   !.gathered = ReturnedList(gatherContractsFromResponse(
                                    ChainPage(pArgs.page, Null)))]
    /\ ppc' = "pickBestMatch"
    /\ UNCHANGED pArgs

CallPickFromGathered ==
    /\ ppc = "pickBestMatch"
    /\ pOut' = [pOut EXCEPT
                   !.match = pickBestMatch(pOut.gathered.list, 100, 110,
                                           pArgs.explicitExpiration)]
    /\ ppc' = "done"
    /\ UNCHANGED pArgs

GatherInit ==
    /\ ppc = "gatherContractsFromResponse"
    /\ pArgs \in GatherArgs
    /\ pOut = [gathered |-> [t |-> "notrun", list |-> <<>>], match |-> NoMatch]
    /\ NoLookup

GatherNext ==
    \/ CallGatherContracts
    \/ CallPickFromGathered

SpecGather == GatherInit /\ [][GatherNext /\ UNCHANGED fetchVars]_vars

PageRecords == {pArgs.page[i].o : i \in 1..Len(pArgs.page)}

GatheredContracts == {pOut.gathered.list[i] : i \in 1..Len(pOut.gathered.list)}

\* the record's symbol as gathered, empty when it has none
SymbolOfRecord(raw) ==
    IF Coalesce(Lookup(raw, SymbolAliases)).t = "str"
      THEN sanitizeOptionSymbol(Coalesce(Lookup(raw, SymbolAliases)).s)
      ELSE <<>>

\* the type a record declares in its type field: call, put or none
DeclaredType(raw) ==
    IF Coalesce(Lookup(raw, TypeAliases)).t # "str" THEN "none"
    ELSE IF toLowerCase(trim(Coalesce(Lookup(raw, TypeAliases)).s)) \in CallWords
      THEN "call"
    ELSE IF toLowerCase(trim(Coalesce(Lookup(raw, TypeAliases)).s)) \in PutWords
      THEN "put"
    ELSE "none"

\* the character 9th from the end of the record's symbol
TypeCharacter(symbol) == IF Len(symbol) >= 9 THEN symbol[Len(symbol) - 8] ELSE ""

IsCallRecord(raw) ==
    \/ DeclaredType(raw) = "call"
    \/ DeclaredType(raw) = "none" /\ TypeCharacter(SymbolOfRecord(raw)) = "C"

\* C27: every contract gathered is a record of the page whose type is call,
\* by its type field or, the field not saying, by the type character of its
\* symbol; no record that is a put or of undetermined type is gathered; so
\* both legs of a match are calls, also when a put is listed at the same
\* strike and expiration.
C27_OnlyCallsResolved ==
    /\ ppc # "gatherContractsFromResponse" =>
          /\ \A c \in GatheredContracts :
                 \E raw \in PageRecords : SymbolOfRecord(raw) = c.symbol /\ IsCallRecord(raw)
          /\ \A raw \in PageRecords :
                 ~IsCallRecord(raw) =>
                     ~\E c \in GatheredContracts : c.symbol = SymbolOfRecord(raw)
    /\ (ppc = "done" /\ pOut.match.t = "match") =>
          /\ pOut.match.long \in GatheredContracts
          /\ pOut.match.short \in GatheredContracts
          /\ \A raw \in PageRecords :
                 SymbolOfRecord(raw) \in {pOut.match.long.symbol, pOut.match.short.symbol}
                     => IsCallRecord(raw)

\* a put is listed after the two calls at the strike and expiration of the
\* long call, and the long leg is the call
C27_Witness ==
    /\ ppc = "done"
    /\ pArgs.page = <<Quoted(SymLong1), Quoted(SymShort1), PutBySymbol>>
    /\ pOut.match.t = "match"
    /\ pOut.match.long.symbol = SymLong1 /\ pOut.match.short.symbol = SymShort1

\* the records of the pool that are calls with a symbol, a numeric strike
\* and an expiration that is a date
WellFormedRecords == {Quoted(SymLong1).o, Quoted(SymShort1).o, CallByField.o}

\* C28: gatherContractsFromResponse returns a list for every page and never
\* raises; a record it cannot interpret (no symbol, a strike that is no
\* number, an expiration that is empty or no date) is skipped, and the
\* well-formed contracts of the page are gathered all the same.
C28_UninterpretableSkipped ==
    ppc # "gatherContractsFromResponse" =>
        /\ pOut.gathered.t = "list"
        /\ \A raw \in PageRecords \cap WellFormedRecords :
               \E c \in GatheredContracts : c.symbol = SymbolOfRecord(raw)
        /\ \A c \in GatheredContracts : DateParseSeconds(c.expiration) >= 0

\* a well-formed call is listed ahead of a record whose expiration is no
\* date, and the call raised instead of returning the call
C28_Witness ==
    /\ ppc = "done"
    /\ pArgs.page = <<Quoted(SymLong1), Quoted(SymShort1), Misdated(SymLong1, Soon)>>
    /\ pOut.gathered.t = "throw"
    /\ pOut.match.t = "none"


-----------------------------------------------------------------------------
(* The payoff as a function of the price at expiry (checked under SpecPayoff) *)

\* bullCallSpreadProfit for the arguments of the run with another price at expiry
ProfitAtPrice(price) ==
    bullCallSpreadProfit([pArgs EXCEPT !.priceAtExpiry = Num(price)])

\* no lower price at expiry gives a higher profit than the price of the run
NoLowerPricePaysMore ==
    \A price \in PriceValues :
        price <= pArgs.priceAtExpiry.v =>
            /\ ProfitAtPrice(price).t = "num"
            /\ ProfitAtPrice(price).v <= pOut.profit.v

\* C29: for fixed longStrike < shortStrike, debit >= 0, positive integer
\* contractSize and contracts, bullCallSpreadProfit is non-decreasing in
\* priceAtExpiry and lies between bullCallSpreadMaxLossPerContract *
\* contracts and bullCallSpreadMaxProfitPerContract * contracts inclusive.
C29_ProfitMonotoneAndBounded ==
    (ppc = "done" /\ ValidSpreadArgs) =>
        /\ pOut.profit.t = "num" /\ pOut.maxLoss.t = "num" /\ pOut.maxProfit.t = "num"
        /\ NoLowerPricePaysMore
        /\ pOut.maxLoss.v * pArgs.contracts.v <= pOut.profit.v
        /\ pOut.profit.v <= pOut.maxProfit.v * pArgs.contracts.v

C29_Witness ==
    /\ ppc = "done" /\ ValidSpreadArgs
    /\ pArgs.contracts.v = 2
    /\ pArgs.longStrike.v < pArgs.priceAtExpiry.v
    /\ pArgs.priceAtExpiry.v < pArgs.shortStrike.v
    /\ pOut.maxLoss.v * 2 < pOut.profit.v
    /\ pOut.profit.v < pOut.maxProfit.v * 2
    /\ ProfitAtPrice(pArgs.longStrike.v).v < pOut.profit.v


-----------------------------------------------------------------------------
(* src/yahoo.ts: the Yahoo Finance integration *)

\* typeof value === "number" && Number.isFinite(value) ? value : undefined
yahooToFiniteNumber(value) == IF value.t = "num" THEN value ELSE Undefined

MidPriceError == Throw("Unable to determine mid price from Yahoo Finance data.")

midFromContract(contract) ==
    IF yahooToFiniteNumber(contract.bid).t # "undefined"
       /\ yahooToFiniteNumber(contract.ask).t # "undefined"
      THEN QuoteMean(contract.bid, contract.ask)
    ELSE IF yahooToFiniteNumber(contract.lastPrice).t # "undefined"
      THEN contract.lastPrice
    ELSE IF yahooToFiniteNumber(contract.ask).t # "undefined" THEN contract.ask
    ELSE IF yahooToFiniteNumber(contract.bid).t # "undefined" THEN contract.bid
    ELSE MidPriceError

\* Number.isFinite(c.strike) && Math.abs(c.strike - strike) < STRIKE_EPSILON
StrikeMatches(contract, strike) ==
    /\ IsFinite(contract.strike)
    /\ Abs(contract.strike.v - strike.v) * StrikeEpsilonInverse < 1

\* calls.find(...): the first call at the strike, undefined without one
findCallByStrike(calls, strike) ==
    IF calls.t # "arr" THEN Undefined
    ELSE IF \A i \in 1..Len(calls.a) : ~StrikeMatches(calls.a[i], strike)
      THEN Undefined
    ELSE calls.a[CHOOSE i \in 1..Len(calls.a) :
                    /\ StrikeMatches(calls.a[i], strike)
                    /\ \A j \in 1..(i - 1) : ~StrikeMatches(calls.a[j], strike)]

NoChainMatch == [t |-> "null"]

HasBothCalls(option, longStrike, shortStrike) ==
    /\ findCallByStrike(option.calls, longStrike).t # "undefined"
    /\ findCallByStrike(option.calls, shortStrike).t # "undefined"

ChainMatchIn(option, longStrike, shortStrike) ==
    [t |-> "match", contract |-> option,
     longCall |-> findCallByStrike(option.calls, longStrike),
     shortCall |-> findCallByStrike(option.calls, shortStrike)]

\* the first entry of chain.options that lists calls at both strikes
evaluateChainForStrikes(chain, longStrike, shortStrike) ==
    IF chain.options.t # "arr" THEN NoChainMatch
    ELSE IF \A i \in 1..Len(chain.options.a) :
                ~HasBothCalls(chain.options.a[i], longStrike, shortStrike)
      THEN NoChainMatch
    ELSE ChainMatchIn(
           chain.options.a[CHOOSE i \in 1..Len(chain.options.a) :
               /\ HasBothCalls(chain.options.a[i], longStrike, shortStrike)
               /\ \A j \in 1..(i - 1) :
                      ~HasBothCalls(chain.options.a[j], longStrike, shortStrike)],
           longStrike, shortStrike)

SearchPending == [t |-> "pending"]

StrikesNotFound ==
    Throw("Unable to locate strikes in Yahoo Finance option chain.")

RequestFailed == Throw("Yahoo Finance request failed.")

SpreadResult(longMid, shortMid, expiration) ==
    [t |-> "return", netDebitPerShare |-> longMid.v - shortMid.v,
     longMid |-> longMid.v, shortMid |-> shortMid.v, expiration |-> expiration]

\* lines 158-162 and 184-189: the mids of the matched calls, or the error
\* midFromContract throws
MatchResult(match) ==
    IF midFromContract(match.longCall).t = "throw"
      THEN midFromContract(match.longCall)
    ELSE IF midFromContract(match.shortCall).t = "throw"
      THEN midFromContract(match.shortCall)
    ELSE SpreadResult(midFromContract(match.longCall),
                      midFromContract(match.shortCall),
                      match.contract.expirationDate)

\* lines 163-169: the finite expirationDate of every entry of chain.options
OptionExpirations(chain) ==
    IF chain.options.t # "arr" THEN {}
    ELSE {chain.options.a[i].expirationDate.v :
            i \in {j \in 1..Len(chain.options.a) :
                     IsFinite(chain.options.a[j].expirationDate)}}

\* the test of line 172 without the visited set
IsFreshExpiration_unvisited(ts, visitedExpirations) == IsFinite(ts)

\* Number.isFinite(ts) && !visitedExpirations.has(ts)
IsFreshExpiration(ts, visitedExpirations) ==
    IsFinite(ts) /\ ts.v \notin visitedExpirations

\* lines 171-176, one timestamp of chain.expirationDates after the other
RECURSIVE EnqueueDates(_, _, _)
EnqueueDates(dates, visitedExpirations, queue) ==
    IF dates = <<>>
      THEN [visitedExpirations |-> visitedExpirations, queue |-> queue]
    ELSE IF IsFreshExpiration(Head(dates), visitedExpirations)
      THEN EnqueueDates(Tail(dates), visitedExpirations \cup {Head(dates).v},
                        Append(queue, Head(dates).v))
    ELSE EnqueueDates(Tail(dates), visitedExpirations, queue)

ReportedDates(chain) ==
    IF chain.expirationDates.t = "arr" THEN chain.expirationDates.a ELSE <<>>

\* processChain when the chain has no match: the search state with the
\* chain's expirations marked and its unvisited expirationDates queued
Enqueued(search, chain) ==
    [search EXCEPT
       !.visitedExpirations =
           EnqueueDates(ReportedDates(chain),
                        search.visitedExpirations \cup OptionExpirations(chain),
                        search.queue).visitedExpirations,
       !.queue =
           EnqueueDates(ReportedDates(chain),
                        search.visitedExpirations \cup OptionExpirations(chain),
                        search.queue).queue]

processChain(search, chain, longStrike, shortStrike) ==
    IF evaluateChainForStrikes(chain, longStrike, shortStrike).t = "match"
      THEN [search EXCEPT !.result =
               MatchResult(evaluateChainForStrikes(chain, longStrike, shortStrike))]
      ELSE Enqueued(search, chain)

\* fetchOptionChain throws for a failed request, and the chain is processed
\* otherwise
AfterResponse(search, response, longStrike, shortStrike) ==
    IF response.t = "failed" THEN [search EXCEPT !.result = RequestFailed]
    ELSE processChain(search, response, longStrike, shortStrike)

\* lines 192 and 207: with nothing returned and an empty queue the loop ends
\* and the not-found error is thrown
AfterLoopTest(search) ==
    IF search.result.t = "pending" /\ search.queue = <<>>
      THEN [search EXCEPT !.result = StrikesNotFound]
      ELSE search

\* the request and its response join the log of the search
Logged(search, request, response) ==
    [search EXCEPT !.requested = Append(@, request),
                   !.chains = Append(@, response)]

-----------------------------------------------------------------------------
(* What Yahoo Finance may answer. Expiration timestamps are numbered        *)
(* 1..MaxExpirations; strikes and prices are whole dollars.                 *)

MaxExpirations == 3

Timestamps == 1..MaxExpirations

YahooCall(strike, bid, ask, lastPrice) ==
    [t |-> "call", strike |-> strike, bid |-> bid, ask |-> ask,
     lastPrice |-> lastPrice]

YahooLong == YahooCall(Num(100), Num(6), Num(8), Num(9))
YahooShort == YahooCall(Num(110), Num(2), Null, Num(3))
YahooUnpriced == YahooCall(Num(110), Null, Undefined, NaN)
YahooOther == YahooCall(Num(105), Num(4), Num(6), Undefined)
YahooUnstruck == YahooCall(NaN, Num(4), Num(6), Undefined)

YahooOption(expirationDate, calls) ==
    [expirationDate |-> expirationDate, calls |-> calls]

YahooChain(options, expirationDates) ==
    [t |-> "chain", options |-> options, expirationDates |-> expirationDates]

AscendingDates == [i \in 1..MaxExpirations |-> Num(i)]
DescendingDates == [i \in 1..MaxExpirations |-> Num(MaxExpirations + 1 - i)]

YahooResponses ==
    { [t |-> "failed"],
      YahooChain(Undefined, Undefined),
      YahooChain(Arr(<<YahooOption(Num(1), Arr(<<YahooLong, YahooOther>>))>>),
                 Arr(AscendingDates)),
      YahooChain(Arr(<<YahooOption(Num(2), Arr(<<YahooUnstruck, YahooShort>>))>>),
                 Arr(DescendingDates)),
      YahooChain(Arr(<<YahooOption(NaN, Undefined)>>),
                 Arr(<<NaN, Num(2), Num(1), Num(2)>>)),
      YahooChain(Arr(<<>>), Arr(<<Num(MaxExpirations)>>)),
      YahooChain(Arr(<<YahooOption(Num(1), Arr(<<YahooLong>>)),
                       YahooOption(Num(2), Arr(<<YahooOther, YahooShort, YahooLong>>))>>),
                 Arr(AscendingDates)),
      YahooChain(Arr(<<YahooOption(Num(MaxExpirations),
                                   Arr(<<YahooLong, YahooShort>>))>>),
                 Arr(AscendingDates)),
      YahooChain(Arr(<<YahooOption(Num(2), Arr(<<YahooLong, YahooUnpriced>>))>>),
                 Undefined),
      YahooChain(Arr(<<YahooOption(Num(1), Arr(<<YahooLong>>)),
                       YahooOption(Num(2), Arr(<<YahooShort>>))>>),
                 Arr(AscendingDates)) }

YahooArgs ==
    [longStrike : {Num(100), Num(110)}, shortStrike : {Num(100), Num(110)}]

NoSearch ==
    [visitedExpirations |-> {}, queue |-> <<>>, requested |-> <<>>,
     chains |-> <<>>, result |-> SearchPending]

\* line 181-190, and the loop test when the first chain has no match
FetchInitialChain ==
    /\ ppc = "initialChain"
    /\ \E response \in YahooResponses :
         pOut' = AfterLoopTest(
                   AfterResponse(Logged(pOut, Undefined, response), response,
                                 pArgs.longStrike, pArgs.shortStrike))
    /\ ppc' = IF pOut'.result.t = "pending" THEN "queue" ELSE "done"
    /\ UNCHANGED pArgs

\* lines 192-205: queue.shift(), the request for that expiration, the chain
\* processed, and the loop test
FetchQueuedChain ==
    /\ ppc = "queue"
    /\ pOut.queue # <<>>
    /\ \E response \in YahooResponses :
         pOut' = AfterLoopTest(
                   AfterResponse(
                     Logged([pOut EXCEPT !.queue = Tail(@)],
                            Num(Head(pOut.queue)), response),
                     response, pArgs.longStrike, pArgs.shortStrike))
    /\ ppc' = IF pOut'.result.t = "pending" THEN "queue" ELSE "done"
    /\ UNCHANGED pArgs

YahooInit ==
    /\ ppc = "initialChain"
    /\ pArgs \in YahooArgs
    /\ pOut = NoSearch
    /\ NoLookup

YahooNext ==
    \/ FetchInitialChain
    \/ FetchQueuedChain

SpecYahoo == YahooInit /\ [][YahooNext /\ UNCHANGED fetchVars]_vars


-----------------------------------------------------------------------------
(* Properties of the search over expirations (checked under SpecYahoo) *)

\* the expirations requested after the first, dateless request
RequestedDates ==
    [i \in 1..(Len(pOut.requested) - 1) |-> pOut.requested[i + 1].v]

NoRepeats(seq) ==
    \A i, j \in 1..Len(seq) : seq[i] = seq[j] => i = j

FiniteOnes(values) == SelectSeq(values, LAMBDA value : value.t = "num")

\* the finite expiration timestamps a response reports, in its order
ReportedBy(response) ==
    IF response.t # "chain" THEN <<>>
    ELSE FiniteOnes(IF response.options.t = "arr"
                      THEN [i \in 1..Len(response.options.a) |->
                              response.options.a[i].expirationDate]
                      ELSE <<>>)
         \o FiniteOnes(ReportedDates(response))

\* the timestamps reported by the first n responses, in the order reported
RECURSIVE ReportedUpTo(_)
ReportedUpTo(n) ==
    IF n = 0 THEN <<>> ELSE ReportedUpTo(n - 1) \o ReportedBy(pOut.chains[n])

IsReportedWithin(ts, n) ==
    \E k \in 1..Len(ReportedUpTo(n)) : ReportedUpTo(n)[k].v = ts

FirstReportedAt(ts) ==
    CHOOSE k \in 1..Len(ReportedUpTo(Len(pOut.chains))) :
        /\ ReportedUpTo(Len(pOut.chains))[k].v = ts
        /\ \A j \in 1..(k - 1) : ReportedUpTo(Len(pOut.chains))[j].v # ts

\* every timestamp is queued at most once and requested at most once: what
\* was requested and what is still queued holds no timestamp twice
EnqueuedAtMostOnce == NoRepeats(RequestedDates \o pOut.queue)

\* a requested expiration was reported by an earlier response, and the
\* requests follow the order of the first reports
RequestedInReportedOrder ==
    /\ \A i \in 1..Len(RequestedDates) : IsReportedWithin(RequestedDates[i], i)
    /\ \A i, j \in 1..Len(RequestedDates) :
         i < j => FirstReportedAt(RequestedDates[i]) < FirstReportedAt(RequestedDates[j])

CallsAt(option, strike) ==
    IF option.calls.t # "arr" THEN {}
    ELSE {i \in 1..Len(option.calls.a) : option.calls.a[i].strike = strike}

ListsBothStrikes(option) ==
    CallsAt(option, pArgs.longStrike) # {} /\ CallsAt(option, pArgs.shortStrike) # {}

\* the response is a chain with an entry that lists calls at both strikes
ContainsBothStrikes(response) ==
    /\ response.t = "chain" /\ response.options.t = "arr"
    /\ \E i \in 1..Len(response.options.a) : ListsBothStrikes(response.options.a[i])

FirstEntryWithBoth(response) ==
    response.options.a[CHOOSE i \in 1..Len(response.options.a) :
        /\ ListsBothStrikes(response.options.a[i])
        /\ \A j \in 1..(i - 1) : ~ListsBothStrikes(response.options.a[j])]

FirstCallAt(option, strike) ==
    option.calls.a[CHOOSE i \in CallsAt(option, strike) :
                     \A j \in CallsAt(option, strike) : i <= j]

HasPrice(call) ==
    call.bid.t = "num" \/ call.ask.t = "num" \/ call.lastPrice.t = "num"

BothLegsPriced(option) ==
    /\ HasPrice(FirstCallAt(option, pArgs.longStrike))
    /\ HasPrice(FirstCallAt(option, pArgs.shortStrike))

LastChain == pOut.chains[Len(pOut.chains)]

ReturnsEntry(option) ==
    /\ pOut.result.t = "return"
    /\ pOut.result.expiration = option.expirationDate

\* a chain containing both strikes is the last one requested and is returned
FirstChainWithBothReturned ==
    /\ \A i \in 1..Len(pOut.chains) :
         ContainsBothStrikes(pOut.chains[i]) =>
             i = Len(pOut.chains) /\ ReturnsEntry(FirstEntryWithBoth(pOut.chains[i]))
    /\ pOut.result.t = "return" => ContainsBothStrikes(LastChain)

\* a chain containing both strikes is the last one requested; it is returned
\* when both of its calls have a price, and the mid-price error is raised
\* when one has none
FirstChainWithBothEndsSearch ==
    /\ \A i \in 1..Len(pOut.chains) :
         ContainsBothStrikes(pOut.chains[i]) =>
             /\ i = Len(pOut.chains)
             /\ IF BothLegsPriced(FirstEntryWithBoth(pOut.chains[i]))
                  THEN ReturnsEntry(FirstEntryWithBoth(pOut.chains[i]))
                  ELSE pOut.result = MidPriceError
    /\ pOut.result.t = "return" => ContainsBothStrikes(LastChain)
    /\ pOut.result = MidPriceError => ContainsBothStrikes(LastChain)

\* the not-found error is raised with an empty queue and no chain with both
\* strikes, and the search goes on while the queue holds an expiration
NotFoundOnlyWithEmptyQueue ==
    /\ pOut.result = StrikesNotFound =>
         /\ pOut.queue = <<>>
         /\ \A i \in 1..Len(pOut.chains) : ~ContainsBothStrikes(pOut.chains[i])
    /\ (pOut.result.t = "pending" /\ pOut.requested # <<>>) => pOut.queue # <<>>
    /\ ppc = "done" <=> pOut.result.t # "pending"

\* no more requests than one for every timestamp and the dateless first one
SearchBounded ==
    /\ Len(pOut.requested) <= 1 + MaxExpirations
    /\ \A i \in 1..Len(RequestedDates) : RequestedDates[i] \in Timestamps

\* a step of the search issues one request, for the head of the queue after
\* the first, and leaves the search finished or with an expiration queued
SearchAdvances ==
    /\ ppc # "done"
    /\ Len(pOut'.requested) = Len(pOut.requested) + 1
    /\ pOut.requested # <<>> =>
         pOut'.requested[Len(pOut'.requested)] = Num(Head(pOut.queue))
    /\ ppc' = "done" \/ pOut'.queue # <<>>

\* C30 as claimed: without an explicit expiration the search ends for every
\* finite set of reported expirations; each timestamp is queued and requested
\* at most once, in the order first reported; the first chain containing both
\* strikes is returned; the not-found error is raised only with an empty queue.
C30_FirstChainWithBothReturned ==
    /\ [](SearchBounded /\ EnqueuedAtMostOnce /\ RequestedInReportedOrder
            /\ FirstChainWithBothReturned /\ NotFoundOnlyWithEmptyQueue)
    /\ [][SearchAdvances]_vars

\* C30 amended: as claimed, except that the first chain containing both
\* strikes ends the search: it is returned when both calls have a usable
\* price, and the mid-price error is raised, with no further request, when
\* one of them has no finite bid, ask or lastPrice.
C30_SearchTerminates ==
    /\ [](SearchBounded /\ EnqueuedAtMostOnce /\ RequestedInReportedOrder
            /\ FirstChainWithBothEndsSearch /\ NotFoundOnlyWithEmptyQueue)
    /\ [][SearchAdvances]_vars

C30_Witness ==
    /\ ppc = "done" /\ pOut.result.t = "return"
    /\ Len(pOut.requested) = 1 + MaxExpirations
    /\ pOut.requested[2].v > pOut.requested[3].v
    /\ pOut.result.expiration = Num(MaxExpirations)

====
